---- MODULE Spec2Model ----
(***************************************************************************)
(* Model of the move-package-analyzer environment builder                  *)
(* (crates/move-package-analyzer/src/model/loader.rs).                     *)
(*                                                                         *)
(* build_environment runs the stages load_packages, load_modules,          *)
(* load_structs, load_fields, load_constants, load_functions, load_code    *)
(* and then returns the GlobalEnv.  Every stage is one action.  A panic of *)
(* the Rust code unwinds build_environment: the builder's locals are       *)
(* dropped and nothing is returned.                                        *)
(*                                                                         *)
(* Pool indices are 0-based as in the code; pool[i] of the code is         *)
(* pool[i + 1] of the sequence that models it.  A canonical key            *)
(* "addr::module::name" is the tuple <<addr, module, name>>.               *)
(***************************************************************************)
EXTENDS Integers, Sequences, FiniteSets, TLC

\* Largest number of packages in an input batch.
MaxPackages == 2

\* ObjectIDs / account addresses that occur in the input batches.
Addrs == {"0xA", "0xB", "0xC"}

----------------------------------------------------------------------------
(* Generic helpers *)

Range(s) == {s[i] : i \in DOMAIN s}

Last(s) == s[Len(s)]

MaxOf(S) == CHOOSE x \in S : \A y \in S : y <= x

\* iter.collect::<BTreeMap<_, _>>() over a sequence of [key, idx] pairs: an
\* entry inserted later replaces an earlier one with the same key.
CollectMap(pairs) ==
  [k \in {pairs[i].key : i \in DOMAIN pairs} |->
     pairs[MaxOf({i \in DOMAIN pairs : pairs[i].key = k})].idx]

\* BTreeMap::get
MapHas(map, key) == key \in DOMAIN map

EmptyMap == << >>

----------------------------------------------------------------------------
(* The binary format, as far as the loader reads it *)

\* A struct or function handle, with its module handle resolved: the address
\* and name of the module handle, and the name of the entity.
Handle(addr, module, name) == [addr |-> addr, module |-> module, name |-> name]

NoHandle == Handle("", "", "")

\* SignatureToken
Sig(k, h, args, n) == [k |-> k, h |-> h, args |-> args, n |-> n]
SigPrim(k) == Sig(k, NoHandle, << >>, 0)
SigVector(t) == Sig("Vector", NoHandle, <<t>>, 0)
SigReference(t) == Sig("Reference", NoHandle, <<t>>, 0)
SigMutableReference(t) == Sig("MutableReference", NoHandle, <<t>>, 0)
SigStruct(h) == Sig("Struct", h, << >>, 0)
SigStructInstantiation(h, args) == Sig("StructInstantiation", h, args, 0)
SigTypeParameter(n) == Sig("TypeParameter", NoHandle, << >>, n)

PrimKinds == {"Bool", "U8", "U16", "U32", "U64", "U128", "U256", "Address"}

\* Bytecode of the binary format.  h: function handle of a call; def: struct
\* definition index of a pack / unpack / the owner of a field handle; field:
\* the field offset of a field handle; n: code offset, local, constant or
\* count operand; sigs: the type arguments (generic forms) or the signature
\* of a vector opcode.
RawInstr(op, h, def, field, n, sigs) ==
  [op |-> op, h |-> h, def |-> def, field |-> field, n |-> n, sigs |-> sigs]
RawPlain(op) == RawInstr(op, NoHandle, 0, 0, 0, << >>)
RawOperand(op, n) == RawInstr(op, NoHandle, 0, 0, n, << >>)
RawCall(h) == RawInstr("Call", h, 0, 0, 0, << >>)
RawCallGeneric(h, sigs) == RawInstr("CallGeneric", h, 0, 0, 0, sigs)
RawStructOp(op, def) == RawInstr(op, NoHandle, def, 0, 0, << >>)
RawStructOpGeneric(op, def, sigs) == RawInstr(op, NoHandle, def, 0, 0, sigs)
RawFieldOp(op, def, field) == RawInstr(op, NoHandle, def, field, 0, << >>)
RawFieldOpGeneric(op, def, field, sigs) == RawInstr(op, NoHandle, def, field, 0, sigs)
RawVecOp(op, sig, n) == RawInstr(op, NoHandle, 0, 0, n, <<sig>>)

\* The opcodes load_code translates, by the shape of their translation.
PlainOps ==
  {"Nop", "Pop", "Ret", "LdTrue", "LdFalse", "CastU8", "CastU16", "CastU32",
   "CastU64", "CastU128", "CastU256", "Add", "Sub", "Mul", "Mod", "Div",
   "BitOr", "BitAnd", "Xor", "Or", "And", "Not", "Eq", "Neq", "Lt", "Gt",
   "Le", "Ge", "Shl", "Shr", "Abort", "ReadRef", "WriteRef", "FreezeRef"}
OperandOps ==
  {"BrTrue", "BrFalse", "Branch", "LdConst", "LdU8", "LdU16", "LdU32",
   "LdU64", "LdU128", "LdU256", "CopyLoc", "MoveLoc", "StLoc",
   "MutBorrowLoc", "ImmBorrowLoc"}
CallOps == {"Call", "CallGeneric"}
StructOps == {"Pack", "Unpack"}
StructGenericOps == {"PackGeneric", "UnpackGeneric"}
FieldOps == {"MutBorrowField", "ImmBorrowField"}
FieldGenericOps == {"MutBorrowFieldGeneric", "ImmBorrowFieldGeneric"}
VecOps ==
  {"VecPack", "VecLen", "VecImmBorrow", "VecMutBorrow", "VecPushBack",
   "VecPopBack", "VecUnpack", "VecSwap"}

\* StructDefinition: its handle, and field_information (Declared(fields) or
\* Native).
StructDef(h, declared, fields) ==
  [handle |-> h, declared |-> declared, fields |-> fields]
FieldDef(name, sig) == [name |-> name, sig |-> sig]

\* FunctionDefinition with its handle: parameters, return_, and the optional
\* code unit (locals, code).
FunctionDef(h, params, returns, hasCode, locals, code) ==
  [handle |-> h, parameters |-> params, returns |-> returns,
   has_code |-> hasCode, locals |-> locals, code |-> code]

\* CompiledModule: self_id() is (self_addr, self_name).
CompiledModule(addr, name, structDefs, functionDefs, constantPool) ==
  [self_addr |-> addr, self_name |-> name, struct_defs |-> structDefs,
   function_defs |-> functionDefs, constant_pool |-> constantPool]

EmptyModule == CompiledModule("", "", << >>, << >>, << >>)

\* One entry of MovePackage::serialized_module_map(): the map key and the
\* bytes, which either deserialize to a CompiledModule or do not.
ModuleEntry(name, valid, cm) == [name |-> name, valid |-> valid, cm |-> cm]

\* MovePackage.  module_map is in key order (a BTreeMap).
MovePackage(id, version, moduleMap, typeOriginTable, linkageTable) ==
  [id |-> id, version |-> version, module_map |-> moduleMap,
   type_origin_table |-> typeOriginTable, linkage_table |-> linkageTable]

TypeOrigin(module, struct, package) ==
  [module_name |-> module, struct_name |-> struct, package |-> package]

UpgradeInfo(id, version) == [upgraded_id |-> id, upgraded_version |-> version]

----------------------------------------------------------------------------
(* The entities of the environment (move_model.rs) *)

\* Type: k is the variant; idx the StructIndex of Struct and
\* StructInstantiation; args the boxed inner type or the type arguments; n the
\* TypeParameterIndex.
Type(k, idx, args, n) == [k |-> k, idx |-> idx, args |-> args, n |-> n]

\* Bytecode: idx is the FunctionIndex of a call or the StructIndex of a struct
\* or field opcode; field the field_idx of a FieldRef; n the copied operand;
\* types the resolved type arguments or the element type of a vector opcode.
\* Branch targets renumbered instead of copied.
Bytecode_Relocated(op, idx, field, n, types) ==
  [op |-> op, idx |-> idx, field |-> field,
   n |-> IF op \in {"BrTrue", "BrFalse", "Branch"} THEN n + 1 ELSE n, types |-> types]

\* The field offset of a field reference counted from one.
Bytecode_FieldFromOne(op, idx, field, n, types) ==
  [op |-> op, idx |-> idx, field |-> field + 1, n |-> n, types |-> types]

Bytecode(op, idx, field, n, types) ==
  [op |-> op, idx |-> idx, field |-> field, n |-> n, types |-> types]

NoCode == [present |-> FALSE, locals |-> << >>, code |-> << >>]
Code(locals, code) == [present |-> TRUE, locals |-> locals, code |-> code]

ModuleId(addr, name) == [addr |-> addr, name |-> name]

\* Result of a step that may panic: the value, or the kind of the panic.
Ok(v) == [ok |-> TRUE, err |-> "", v |-> v]
Fail(kind) == [ok |-> FALSE, err |-> kind, v |-> << >>]

----------------------------------------------------------------------------
(* Readers of the binary format (model/compiled_module_util.rs) *)

\* (module name, struct name) of a struct handle
module_struct_name_from_handle(h) == <<h.module, h.name>>

\* address of the module handle of a struct handle
get_package_from_struct_handle(h) == h.addr

\* (module name, struct name) of the handle of a struct definition
module_struct_name_from_def(cm, defIdx) ==
  <<cm.struct_defs[defIdx + 1].handle.module, cm.struct_defs[defIdx + 1].handle.name>>

\* address of the module handle of the handle of a struct definition
get_package_from_struct_def(cm, defIdx) == cm.struct_defs[defIdx + 1].handle.addr

\* (module name, function name) of a function handle
module_function_name_from_handle(h) == <<h.module, h.name>>

\* (module name, function name) of the handle of a function definition
module_function_name_from_def(cm, defIdx) ==
  <<cm.function_defs[defIdx + 1].handle.module, cm.function_defs[defIdx + 1].handle.name>>

\* address of the module handle of a function handle
get_package_from_function_handle(h) == h.addr

\* MovePackage::type_origin_map(): the table collected into a BTreeMap.
type_origin_map(movePackage) ==
  CollectMap([i \in DOMAIN movePackage.type_origin_table |->
    [key |-> <<movePackage.type_origin_table[i].module_name,
               movePackage.type_origin_table[i].struct_name>>,
     idx |-> movePackage.type_origin_table[i].package]])

\* MovePackage::linkage_table()
linkage_table(movePackage) == movePackage.linkage_table

----------------------------------------------------------------------------
(* IdentifierMap: the intern table *)

NewIdentifierMap == [identifiers |-> << >>, identifier_map |-> EmptyMap]

\* get_identifier_idx without the lookup: every call appends.
get_identifier_idx_AlwaysAppend(im, ident) ==
  [im |-> [identifiers |-> Append(im.identifiers, ident),
           identifier_map |-> (ident :> Len(im.identifiers)) @@ im.identifier_map],
   idx |-> Len(im.identifiers)]

\* get_identifier_idx taking the index after the push: the length of the
\* pool, one past the position of the identifier.
get_identifier_idx_AfterPush(im, ident) ==
  IF MapHas(im.identifier_map, ident)
  THEN [im |-> im, idx |-> im.identifier_map[ident]]
  ELSE [im |-> [identifiers |-> Append(im.identifiers, ident),
                identifier_map |-> (ident :> (Len(im.identifiers) + 1)) @@ im.identifier_map],
        idx |-> Len(im.identifiers) + 1]

\* get_identifier_idx: the table after the call and the index returned.
get_identifier_idx(im, ident) ==
  IF MapHas(im.identifier_map, ident)
  THEN [im |-> im, idx |-> im.identifier_map[ident]]
  ELSE LET idx == Len(im.identifiers)
       IN [im |-> [identifiers |-> Append(im.identifiers, ident),
                   identifier_map |-> (ident :> idx) @@ im.identifier_map],
           idx |-> idx]

get_identifier(im, idx) == im.identifiers[idx + 1]

----------------------------------------------------------------------------
(* Symbol resolution *)

\* get_value: the index under the key, or the MissingKey error.
\* get_value answering index 0 for a key the map does not hold.
get_value_Default(key, map) ==
  IF key \in DOMAIN map THEN Ok(map[key]) ELSE Ok(0)

get_value(key, map) ==
  IF MapHas(map, key) THEN Ok(map[key]) ELSE Fail("MissingKey")

\* The canonical key of a struct, format!("{}::{}::{}", ..).
StructKey(packageId, moduleName, structName) == <<packageId, moduleName, structName>>

FunctionKey(packageId, moduleName, funcName) == <<packageId, moduleName, funcName>>

ModuleKey(packageId, moduleName) == <<packageId, moduleName>>

\* OriginOrHandle that never reads the type-origin table.
OriginOrHandle_HandleOnly(package, names, handleId) == handleId

\* The address a reference is resolved from: the type-origin entry of
\* (module, name) when the package has one, the handle's address otherwise.
OriginOrHandle(package, names, handleId) ==
  IF MapHas(package.type_origin, names)
  THEN package.type_origin[names]
  ELSE handleId

\* The linkage table's upgraded id for `id` when the package links it, `id`
\* itself otherwise.
Relocate(package, id) ==
  IF MapHas(linkage_table(package.package), id)
  THEN linkage_table(package.package)[id].upgraded_id
  ELSE id

\* get_struct_idx with the two tables applied in the other order: the linkage
\* table on the handle address, the type-origin entry last.
get_struct_idx_LinkageFirst(packages, struct_map, module, h) ==
  get_value(
    StructKey(
      OriginOrHandle(packages[module.package + 1],
                     module_struct_name_from_handle(h),
                     Relocate(packages[module.package + 1],
                              get_package_from_struct_handle(h))),
      h.module, h.name),
    struct_map)

\* TypeBuilder::get_struct_idx
get_struct_idx(packages, struct_map, module, h) ==
  get_value(
    StructKey(
      Relocate(packages[module.package + 1],
               OriginOrHandle(packages[module.package + 1],
                              module_struct_name_from_handle(h),
                              get_package_from_struct_handle(h))),
      h.module, h.name),
    struct_map)

\* get_struct_key_from_def
get_struct_key_from_def(defIdx, cm, package) ==
  StructKey(
    OriginOrHandle(package, module_struct_name_from_def(cm, defIdx),
                   get_package_from_struct_def(cm, defIdx)),
    cm.struct_defs[defIdx + 1].handle.module,
    cm.struct_defs[defIdx + 1].handle.name)

\* get_function_key_from_handle resolving a cross-package callee the way a
\* struct is resolved: from the type-origin entry of (module, name).
get_function_key_from_handle_Origin(h, cm, package) ==
  FunctionKey(
    IF get_package_from_function_handle(h) = cm.self_addr
    THEN package.id
    ELSE Relocate(package,
                  OriginOrHandle(package, module_function_name_from_handle(h),
                                 get_package_from_function_handle(h))),
    h.module, h.name)

\* get_function_key_from_handle
get_function_key_from_handle(h, cm, package) ==
  FunctionKey(
    IF get_package_from_function_handle(h) = cm.self_addr
    THEN package.id
    ELSE Relocate(package, get_package_from_function_handle(h)),
    h.module, h.name)

\* Box::new(inner) under Vector, Reference or MutableReference.
BoxedType(k, inner) ==
  IF inner.ok THEN Ok(Type(k, 0, <<inner.v>>, 0)) ELSE inner

\* Type::Struct(idx) and Type::StructInstantiation(idx, type_arguments): the
\* struct index is looked up before the type arguments are made.
StructType(k, idx, args) ==
  IF ~idx.ok THEN idx
  ELSE IF ~args.ok THEN args
  ELSE Ok(Type(k, idx.v, args.v, 0))

\* The next element of a collect(): the first panic, or the values in order.
Collect(head, rest) ==
  IF ~head.ok THEN head
  ELSE IF ~rest.ok THEN rest
  ELSE Ok(<<head.v>> \o rest.v)

RECURSIVE make_type(_, _, _, _)
RECURSIVE make_types(_, _, _, _)

\* TypeBuilder::make_type.  A missing struct key and a signature token outside
\* the match arms panic.
make_type(packages, struct_map, module, sig) ==
  IF sig.k \in PrimKinds THEN Ok(Type(sig.k, 0, << >>, 0))
  ELSE IF sig.k \in {"Vector", "Reference", "MutableReference"}
  THEN BoxedType(sig.k, make_type(packages, struct_map, module, sig.args[1]))
  ELSE IF sig.k \in {"Struct", "StructInstantiation"}
  THEN StructType(sig.k, get_struct_idx(packages, struct_map, module, sig.h),
                  make_types(packages, struct_map, module, sig.args))
  ELSE IF sig.k = "TypeParameter" THEN Ok(Type("TypeParameter", 0, << >>, sig.n))
  ELSE Fail("InvalidType")

\* make_types that collects the types last to first.
make_types_Reversed(packages, struct_map, module, sigs) ==
  IF sigs = << >> THEN Ok(<< >>)
  ELSE IF ~make_type(packages, struct_map, module, Head(sigs)).ok
  THEN make_type(packages, struct_map, module, Head(sigs))
  ELSE IF ~make_types(packages, struct_map, module, Tail(sigs)).ok
  THEN make_types(packages, struct_map, module, Tail(sigs))
  ELSE Ok(Append(make_types(packages, struct_map, module, Tail(sigs)).v,
                 make_type(packages, struct_map, module, Head(sigs)).v))

\* sigs.iter().map(|type_| make_type(module, type_)).collect()
make_types(packages, struct_map, module, sigs) ==
  IF sigs = << >> THEN Ok(<< >>)
  ELSE Collect(make_type(packages, struct_map, module, Head(sigs)),
               make_types(packages, struct_map, module, Tail(sigs)))

----------------------------------------------------------------------------
(* Stage 1: load_packages *)

Package(selfIdx, movePackage) ==
  [self_idx |-> selfIdx, id |-> movePackage.id, package |-> movePackage,
   version |-> movePackage.version, type_origin |-> type_origin_map(movePackage),
   modules |-> << >>]

\* load_packages: the package pool and package_map.
load_packages(rawPackages) ==
  [packages |-> [i \in DOMAIN rawPackages |-> Package(i - 1, rawPackages[i])],
   package_map |-> CollectMap([i \in DOMAIN rawPackages |->
                                 [key |-> rawPackages[i].id, idx |-> i - 1]])]

----------------------------------------------------------------------------
(* Stage 2: load_modules *)

Module(package, cm, name) ==
  [self_idx |-> 0, package |-> package, module |-> cm, name |-> name,
   module_id |-> ModuleId(cm.self_addr, cm.self_name), dependencies |-> << >>,
   structs |-> << >>, functions |-> << >>, constants |-> << >>]

\* The second pass leaving the self_idx of the reserve phase in place.
Numbered_Placeholder(reserved) == reserved

\* The second pass of every loader sets self_idx to the pool position.
Numbered(reserved) ==
  [i \in DOMAIN reserved |-> [reserved[i] EXCEPT !.self_idx = i - 1]]

RECURSIVE PushedFrom_OneBased(_, _, _)
\* PushedFrom pushing the one-based position of every pool entry.
PushedFrom_OneBased(owners, owner, i) ==
  IF i > Len(owners) THEN << >>
  ELSE (IF owners[i] = owner THEN <<i>> ELSE << >>)
       \o PushedFrom_OneBased(owners, owner, i + 1)

RECURSIVE PushedFrom_Prepend(_, _, _)
\* PushedFrom inserting every pool index at the front of its owner's list.
PushedFrom_Prepend(owners, owner, i) ==
  IF i > Len(owners) THEN << >>
  ELSE PushedFrom_Prepend(owners, owner, i + 1)
       \o (IF owners[i] = owner THEN <<i - 1>> ELSE << >>)

RECURSIVE PushedFrom(_, _, _)
\* The list an owner gets when every pool index is pushed, in pool order, to
\* the list of its owner; owners[i] is the owner of pool entry i.
PushedFrom(owners, owner, i) ==
  IF i > Len(owners) THEN << >>
  ELSE (IF owners[i] = owner THEN <<i - 1>> ELSE << >>)
       \o PushedFrom(owners, owner, i + 1)

RECURSIVE ModulesOfPackage(_, _, _, _, _)
\* The inner map of load_modules over the deserialized modules of one package:
\* the name check, the interning of the module name, the Module.
ModulesOfPackage(entries, j, pkgIdx, im, out) ==
  IF j > Len(entries) THEN Ok([im |-> im, modules |-> out])
  ELSE IF entries[j].name # entries[j].cm.self_name THEN Fail("NameMismatch")
  ELSE \* im with the name interned; the index is then the one in the map
       ModulesOfPackage(entries, j + 1, pkgIdx,
         get_identifier_idx(im, entries[j].cm.self_name).im,
         Append(out, Module(pkgIdx, entries[j].cm,
                            get_identifier_idx(im, entries[j].cm.self_name).idx)))

RECURSIVE ReserveModules(_, _, _, _)
RECURSIVE ReserveModulesNext(_, _, _, _)
\* The flat_map of load_modules over the packages: every module of a package
\* is deserialized before the first one is named.
ReserveModules(packages, i, im, out) ==
  IF i > Len(packages) THEN Ok([im |-> im, modules |-> out])
  ELSE IF \E j \in DOMAIN packages[i].package.module_map :
            ~packages[i].package.module_map[j].valid
  THEN Fail("DeserializeFailure")
  ELSE ReserveModulesNext(packages, i, out,
         ModulesOfPackage(packages[i].package.module_map, 1, i - 1, im, << >>))

ReserveModulesNext(packages, i, out, r) ==
  IF ~r.ok THEN r
  ELSE ReserveModules(packages, i + 1, r.v.im, out \o r.v.modules)

\* The second pass of load_modules over the reserved pool.
NumberModules(packages, im, pool) ==
  IF \E i \in DOMAIN pool : get_identifier(im, pool[i].name) # pool[i].module_id.name
  THEN Fail("NameMismatch")
  ELSE Ok([im |-> im,
           packages |-> [p \in DOMAIN packages |->
              [packages[p] EXCEPT !.modules =
                 PushedFrom([i \in DOMAIN pool |-> pool[i].package], p - 1, 1)]],
           modules |-> pool,
           module_map |-> CollectMap([i \in DOMAIN pool |->
              [key |-> ModuleKey(packages[pool[i].package + 1].id,
                                 get_identifier(im, pool[i].name)),
               idx |-> i - 1]])])

LoadModulesDone(packages, r) ==
  IF ~r.ok THEN r ELSE NumberModules(packages, r.v.im, Numbered(r.v.modules))

\* load_modules: the identifier table, the packages with their module lists,
\* the module pool and module_map; or the panic.
load_modules(im, packages) ==
  LoadModulesDone(packages, ReserveModules(packages, 1, im, << >>))

----------------------------------------------------------------------------
(* Stage 3: load_structs *)

Struct(package, module, name, defIdx) ==
  [self_idx |-> 0, package |-> package, module |-> module, name |-> name,
   def_idx |-> defIdx, fields |-> << >>]

RECURSIVE StructsOfModule(_, _, _, _, _)
\* The inner map of load_structs over the struct definitions of one module.
StructsOfModule(module, idx, d, im, out) ==
  IF d > Len(module.module.struct_defs) THEN Ok([im |-> im, structs |-> out])
  ELSE StructsOfModule(module, idx, d + 1,
         get_identifier_idx(im, module.module.struct_defs[d].handle.name).im,
         Append(out, Struct(module.package, idx,
           get_identifier_idx(im, module.module.struct_defs[d].handle.name).idx,
           d - 1)))

RECURSIVE ReserveStructs(_, _, _, _)
RECURSIVE ReserveStructsNext(_, _, _, _)
\* The flat_map of load_structs over the modules.
ReserveStructs(modules, i, im, out) ==
  IF i > Len(modules) THEN Ok([im |-> im, structs |-> out])
  ELSE IF get_identifier(im, modules[i].name) # modules[i].module_id.name
  THEN Fail("NameMismatch")
  ELSE ReserveStructsNext(modules, i, out,
         StructsOfModule(modules[i], i - 1, 1, im, << >>))

ReserveStructsNext(modules, i, out, r) ==
  ReserveStructs(modules, i + 1, r.v.im, out \o r.v.structs)

\* The names the second pass of load_structs and load_functions compares:
\* the interned module name and entity name against the names of the
\* definition's handle.
\* The name assertions of the second pass left out.
NamesDiffer_Unchecked(im, moduleName, entityName, defNames) == FALSE

NamesDiffer(im, moduleName, entityName, defNames) ==
  \/ get_identifier(im, moduleName) # defNames[1]
  \/ get_identifier(im, entityName) # defNames[2]

\* The second pass of load_structs over the reserved pool.
NumberStructs(packages, modules, im, pool) ==
  IF \E i \in DOMAIN pool :
       NamesDiffer(im, modules[pool[i].module + 1].name, pool[i].name,
         module_struct_name_from_def(modules[pool[i].module + 1].module, pool[i].def_idx))
  THEN Fail("NameMismatch")
  ELSE Ok([im |-> im,
           modules |-> [m \in DOMAIN modules |->
              [modules[m] EXCEPT !.structs =
                 PushedFrom([i \in DOMAIN pool |-> pool[i].module], m - 1, 1)]],
           structs |-> pool,
           struct_map |-> CollectMap([i \in DOMAIN pool |->
              [key |-> StructKey(packages[pool[i].package + 1].id,
                                 get_identifier(im, modules[pool[i].module + 1].name),
                                 get_identifier(im, pool[i].name)),
               idx |-> i - 1]])])

LoadStructsDone(packages, modules, r) ==
  IF ~r.ok THEN r
  ELSE NumberStructs(packages, modules, r.v.im, Numbered(r.v.structs))

\* load_structs: the identifier table, the modules with their struct lists,
\* the struct pool and struct_map; or the panic.
load_structs(im, modules, packages) ==
  LoadStructsDone(packages, modules, ReserveStructs(modules, 1, im, << >>))

----------------------------------------------------------------------------
(* Stage 4: load_fields and load_constants *)

Field(name, type) == [name |-> name, type_ |-> type]

RECURSIVE FieldsOfStruct(_, _, _, _, _, _, _)
RECURSIVE FieldsOfStructNext(_, _, _, _, _, _, _, _)
\* The map of load_fields over the declared fields of one struct: the field
\* name is interned, then the field type is made.
FieldsOfStruct(packages, struct_map, module, fields, j, im, out) ==
  IF j > Len(fields) THEN Ok([im |-> im, fields |-> out])
  ELSE FieldsOfStructNext(packages, struct_map, module, fields, j, out,
         get_identifier_idx(im, fields[j].name),
         make_type(packages, struct_map, module, fields[j].sig))

FieldsOfStructNext(packages, struct_map, module, fields, j, out, name, type) ==
  IF ~type.ok THEN type
  ELSE FieldsOfStruct(packages, struct_map, module, fields, j + 1, name.im,
                      Append(out, Field(name.idx, type.v)))

RECURSIVE FillFields(_, _, _, _, _, _)
RECURSIVE FillFieldsNext(_, _, _, _, _, _)
\* Fields filled in while the structs are numbered: the types of a struct's
\* fields are resolved against the structs numbered so far only.
FillFields_Eager(packages, struct_map, modules, structs, i, im) ==
  IF i > Len(structs) THEN Ok([im |-> im, structs |-> structs])
  ELSE IF ~modules[structs[i].module + 1].module
             .struct_defs[structs[i].def_idx + 1].declared
  THEN Fail("NativeField")
  ELSE FillFieldsNext(packages, struct_map, modules, structs, i,
         FieldsOfStruct(packages,
           [k \in {x \in DOMAIN struct_map : struct_map[x] < i} |-> struct_map[k]],
           modules[structs[i].module + 1],
           modules[structs[i].module + 1].module
             .struct_defs[structs[i].def_idx + 1].fields,
           1, im, << >>))

\* load_fields that gives a struct without declared fields an empty field
\* list.
FillFields_NativeEmpty(packages, struct_map, modules, structs, i, im) ==
  IF i > Len(structs) THEN Ok([im |-> im, structs |-> structs])
  ELSE IF ~modules[structs[i].module + 1].module
             .struct_defs[structs[i].def_idx + 1].declared
  THEN FillFieldsNext(packages, struct_map, modules, structs, i,
                      Ok([im |-> im, fields |-> << >>]))
  ELSE FillFieldsNext(packages, struct_map, modules, structs, i,
         FieldsOfStruct(packages, struct_map, modules[structs[i].module + 1],
           modules[structs[i].module + 1].module
             .struct_defs[structs[i].def_idx + 1].fields,
           1, im, << >>))

\* The for_each of load_fields over the struct pool.
FillFields(packages, struct_map, modules, structs, i, im) ==
  IF i > Len(structs) THEN Ok([im |-> im, structs |-> structs])
  ELSE IF ~modules[structs[i].module + 1].module
             .struct_defs[structs[i].def_idx + 1].declared
  THEN Fail("NativeField")
  ELSE FillFieldsNext(packages, struct_map, modules, structs, i,
         FieldsOfStruct(packages, struct_map, modules[structs[i].module + 1],
           modules[structs[i].module + 1].module
             .struct_defs[structs[i].def_idx + 1].fields,
           1, im, << >>))

FillFieldsNext(packages, struct_map, modules, structs, i, r) ==
  IF ~r.ok THEN r
  ELSE FillFields(packages, struct_map, modules,
                  [structs EXCEPT ![i].fields = r.v.fields], i + 1, r.v.im)

\* load_fields that swallows a failure and leaves the struct pool as it was.
load_fields_BestEffort(structs, im, packages, struct_map, modules) ==
  IF FillFields(packages, struct_map, modules, structs, 1, im).ok
  THEN FillFields(packages, struct_map, modules, structs, 1, im)
  ELSE Ok([im |-> im, structs |-> structs])

\* load_fields: the identifier table and the struct pool with the fields
\* filled in; or the panic.
load_fields(structs, im, packages, struct_map, modules) ==
  FillFields(packages, struct_map, modules, structs, 1, im)

Constant(type, constIdx) == [type_ |-> type, constant |-> constIdx]

RECURSIVE FillConstants(_, _, _, _)
RECURSIVE FillConstantsNext(_, _, _, _, _)
\* The for_each of load_constants over the module pool.
FillConstants(packages, struct_map, modules, i) ==
  IF i > Len(modules) THEN Ok(modules)
  ELSE FillConstantsNext(packages, struct_map, modules, i,
         make_types(packages, struct_map, modules[i], modules[i].module.constant_pool))

FillConstantsNext(packages, struct_map, modules, i, types) ==
  IF ~types.ok THEN types
  ELSE FillConstants(packages, struct_map,
         [modules EXCEPT ![i].constants =
            [c \in DOMAIN types.v |-> Constant(types.v[c], c - 1)]],
         i + 1)

\* load_constants: the module pool with the constants filled in; or the panic.
load_constants(packages, struct_map, modules) ==
  FillConstants(packages, struct_map, modules, 1)

----------------------------------------------------------------------------
(* Stage 5: load_functions *)

Function(package, module, name, defIdx, parameters, returns) ==
  [self_idx |-> 0, package |-> package, module |-> module, name |-> name,
   def_idx |-> defIdx, parameters |-> parameters, returns |-> returns,
   code |-> NoCode]

RECURSIVE FunctionsOfModule(_, _, _, _, _, _)
RECURSIVE FunctionsOfModuleNext(_, _, _, _, _, _, _, _)
\* The inner map of load_functions over the function definitions of one
\* module: parameter types, return types, then the interned name.
FunctionsOfModule(packages, struct_map, module, d, im, out) ==
  IF d > Len(module.module.function_defs) THEN Ok([im |-> im, functions |-> out])
  ELSE FunctionsOfModuleNext(packages, struct_map, module, d, out,
         make_types(packages, struct_map, module, module.module.function_defs[d].parameters),
         make_types(packages, struct_map, module, module.module.function_defs[d].returns),
         get_identifier_idx(im, module.module.function_defs[d].handle.name))

FunctionsOfModuleNext(packages, struct_map, module, d, out, params, returns, name) ==
  IF ~params.ok THEN params
  ELSE IF ~returns.ok THEN returns
  ELSE IF get_identifier(name.im, name.idx) # module.module.function_defs[d].handle.name
  THEN Fail("NameMismatch")
  ELSE FunctionsOfModule(packages, struct_map, module, d + 1, name.im,
         Append(out, Function(module.package, module.self_idx, name.idx, d - 1,
                              params.v, returns.v)))

RECURSIVE ReserveFunctions(_, _, _, _, _, _)
RECURSIVE ReserveFunctionsNext(_, _, _, _, _, _)
\* The flat_map of load_functions over the modules.
ReserveFunctions(packages, struct_map, modules, i, im, out) ==
  IF i > Len(modules) THEN Ok([im |-> im, functions |-> out])
  ELSE ReserveFunctionsNext(packages, struct_map, modules, i, out,
         FunctionsOfModule(packages, struct_map, modules[i], 1, im, << >>))

ReserveFunctionsNext(packages, struct_map, modules, i, out, r) ==
  IF ~r.ok THEN r
  ELSE ReserveFunctions(packages, struct_map, modules, i + 1, r.v.im,
                        out \o r.v.functions)

\* The second pass of load_functions over the reserved pool.
NumberFunctions(packages, modules, im, pool) ==
  IF \E i \in DOMAIN pool :
       NamesDiffer(im, modules[pool[i].module + 1].name, pool[i].name,
         module_function_name_from_def(modules[pool[i].module + 1].module, pool[i].def_idx))
  THEN Fail("NameMismatch")
  ELSE Ok([im |-> im,
           modules |-> [m \in DOMAIN modules |->
              [modules[m] EXCEPT !.functions =
                 PushedFrom([i \in DOMAIN pool |-> pool[i].module], m - 1, 1)]],
           functions |-> pool,
           function_map |-> CollectMap([i \in DOMAIN pool |->
              [key |-> FunctionKey(packages[pool[i].package + 1].id,
                                   get_identifier(im, modules[pool[i].module + 1].name),
                                   get_identifier(im, pool[i].name)),
               idx |-> i - 1]])])

LoadFunctionsDone(packages, modules, r) ==
  IF ~r.ok THEN r
  ELSE NumberFunctions(packages, modules, r.v.im, Numbered(r.v.functions))

\* load_functions: the identifier table, the modules with their function
\* lists, the function pool and function_map; or the panic.
load_functions(im, modules, packages, struct_map) ==
  LoadFunctionsDone(packages, modules,
    ReserveFunctions(packages, struct_map, modules, 1, im, << >>))

----------------------------------------------------------------------------
(* Stage 6: load_code *)

\* get_from_map!: the index under the key; a missing key panics.
get_from_map(key, map) == get_value(key, map)

\* A resolved instruction that carries an index and type arguments: the index
\* is looked up before the type arguments are made.
Resolved(op, idx, field, types) ==
  IF ~idx.ok THEN idx
  ELSE IF ~types.ok THEN types
  ELSE Ok(Bytecode(op, idx.v, field, 0, types.v))

\* A resolved vector instruction: its element type and its count.
ResolvedVec(op, type, count) ==
  IF ~type.ok THEN type ELSE Ok(Bytecode(op, 0, 0, count, <<type.v>>))

\* One arm of the match of load_code: the resolved Bytecode, or the panic.
resolve_bytecode(packages, struct_map, function_map, module, bc) ==
  IF bc.op \in PlainOps THEN Ok(Bytecode(bc.op, 0, 0, 0, << >>))
  ELSE IF bc.op \in OperandOps THEN Ok(Bytecode(bc.op, 0, 0, bc.n, << >>))
  ELSE IF bc.op \in CallOps \cup StructOps \cup StructGenericOps \cup FieldOps
                    \cup FieldGenericOps
  THEN Resolved(bc.op,
         IF bc.op \in CallOps
         THEN get_from_map(
                get_function_key_from_handle(bc.h, module.module,
                                             packages[module.package + 1]),
                function_map)
         ELSE get_from_map(
                get_struct_key_from_def(bc.def, module.module,
                                        packages[module.package + 1]),
                struct_map),
         IF bc.op \in FieldOps \cup FieldGenericOps THEN bc.field ELSE 0,
         IF bc.op \in {"CallGeneric"} \cup StructGenericOps \cup FieldGenericOps
         THEN make_types(packages, struct_map, module, bc.sigs)
         ELSE Ok(<< >>))
  ELSE IF bc.op \in VecOps
  THEN ResolvedVec(bc.op, make_type(packages, struct_map, module, bc.sigs[1]),
                   IF bc.op \in {"VecPack", "VecUnpack"} THEN bc.n ELSE 0)
  ELSE Fail("InvalidBytecode")

\* The opcodes load_code has an arm for.
RecognizedOps ==
  PlainOps \cup OperandOps \cup CallOps \cup StructOps \cup StructGenericOps
  \cup FieldOps \cup FieldGenericOps \cup VecOps

RECURSIVE resolve_code_SkipUnknown(_, _, _, _, _)
\* resolve_code that passes over an opcode it has no arm for.
resolve_code_SkipUnknown(packages, struct_map, function_map, module, code) ==
  IF code = << >> THEN Ok(<< >>)
  ELSE IF Head(code).op \notin RecognizedOps
  THEN resolve_code_SkipUnknown(packages, struct_map, function_map, module, Tail(code))
  ELSE Collect(resolve_bytecode(packages, struct_map, function_map, module, Head(code)),
               resolve_code_SkipUnknown(packages, struct_map, function_map, module, Tail(code)))

RECURSIVE resolve_code_DropNop(_, _, _, _, _)
\* resolve_code that leaves the no-ops out of the resolved list.
resolve_code_DropNop(packages, struct_map, function_map, module, code) ==
  IF code = << >> THEN Ok(<< >>)
  ELSE IF Head(code).op = "Nop"
  THEN resolve_code_DropNop(packages, struct_map, function_map, module, Tail(code))
  ELSE Collect(resolve_bytecode(packages, struct_map, function_map, module, Head(code)),
               resolve_code_DropNop(packages, struct_map, function_map, module, Tail(code)))

RECURSIVE resolve_code(_, _, _, _, _)
\* code_unit.code.iter().map(..).collect()
resolve_code(packages, struct_map, function_map, module, code) ==
  IF code = << >> THEN Ok(<< >>)
  ELSE Collect(resolve_bytecode(packages, struct_map, function_map, module, Head(code)),
               resolve_code(packages, struct_map, function_map, module, Tail(code)))

RECURSIVE FillCode_NativeEmpty(_, _, _, _, _, _)
RECURSIVE FillCodeNext(_, _, _, _, _, _, _, _)
\* FillCode giving a function without a code unit an empty Code.
FillCode_NativeEmpty(packages, struct_map, function_map, modules, functions, i) ==
  IF i > Len(functions) THEN Ok(functions)
  ELSE IF ~modules[functions[i].module + 1].module
             .function_defs[functions[i].def_idx + 1].has_code
  THEN FillCode_NativeEmpty(packages, struct_map, function_map, modules,
         [functions EXCEPT ![i].code = Code(<< >>, << >>)], i + 1)
  ELSE FillCodeNext(packages, struct_map, function_map, modules, functions, i,
         make_types(packages, struct_map, modules[functions[i].module + 1],
           modules[functions[i].module + 1].module
             .function_defs[functions[i].def_idx + 1].locals),
         resolve_code(packages, struct_map, function_map,
           modules[functions[i].module + 1],
           modules[functions[i].module + 1].module
             .function_defs[functions[i].def_idx + 1].code))

RECURSIVE FillCode(_, _, _, _, _, _)
\* The for_each of load_code over the function pool.
FillCode(packages, struct_map, function_map, modules, functions, i) ==
  IF i > Len(functions) THEN Ok(functions)
  ELSE IF ~modules[functions[i].module + 1].module
             .function_defs[functions[i].def_idx + 1].has_code
  THEN FillCode(packages, struct_map, function_map, modules, functions, i + 1)
  ELSE FillCodeNext(packages, struct_map, function_map, modules, functions, i,
         make_types(packages, struct_map, modules[functions[i].module + 1],
           modules[functions[i].module + 1].module
             .function_defs[functions[i].def_idx + 1].locals),
         resolve_code(packages, struct_map, function_map,
           modules[functions[i].module + 1],
           modules[functions[i].module + 1].module
             .function_defs[functions[i].def_idx + 1].code))

FillCodeNext(packages, struct_map, function_map, modules, functions, i, locals, code) ==
  IF ~locals.ok THEN locals
  ELSE IF ~code.ok THEN code
  ELSE FillCode(packages, struct_map, function_map, modules,
                [functions EXCEPT ![i].code = Code(locals.v, code.v)], i + 1)

\* load_code: the function pool with the code filled in; or the panic.
load_code(functions, packages, struct_map, modules, function_map) ==
  FillCode(packages, struct_map, function_map, modules, functions, 1)

----------------------------------------------------------------------------
(* The input batches *)

U64 == SigPrim("U64")
Ret == RawPlain("Ret")

\* Linkage tables: empty, or one entry old -> new.
Linkages ==
  {EmptyMap} \cup
  {(ab[1] :> UpgradeInfo(ab[2], 2)) : ab \in {x \in Addrs \X Addrs : x[1] # x[2]}}

\* Type-origin tables: empty, or one entry for (m, name).
Origins(name) == {<< >>} \cup {<<TypeOrigin("m", name, o)>> : o \in Addrs}

\* A library package at `id`: module m defines the structs S and T{x: u64} and
\* the function g.
LibModule(addr, name) ==
  CompiledModule(addr, name,
    <<StructDef(Handle(addr, name, "S"), TRUE, << >>),
      StructDef(Handle(addr, name, "T"), TRUE, <<FieldDef("x", U64)>>)>>,
    <<FunctionDef(Handle(addr, name, "g"), << >>, << >>, TRUE, << >>, <<Ret>>)>>,
    << >>)

Lib(id) ==
  MovePackage(id, 1, <<ModuleEntry("m", TRUE, LibModule(id, "m"))>>, << >>, EmptyMap)

Libs == {Lib(a) : a \in Addrs}

\* A client module: the struct T{x: fieldSig}, whose handle names the module
\* (tdefAddr, tdefModule); the function f with the body [instr, Ret]; the
\* native function g; one constant.
ClientModule(selfAddr, tdefAddr, tdefModule, declared, fieldSig, fnModule, params, locals, instr, constSig) ==
  CompiledModule(selfAddr, "m",
    <<StructDef(Handle(tdefAddr, tdefModule, "T"), declared,
                <<FieldDef("x", fieldSig)>>)>>,
    <<FunctionDef(Handle(selfAddr, fnModule, "f"), params, <<U64>>, TRUE, locals,
                  <<instr, Ret>>),
      FunctionDef(Handle(selfAddr, "m", "g"), << >>, << >>, FALSE, << >>, << >>)>>,
    <<constSig>>)

\* The client package, at 0xA.
Client(linkage, origin, cm) ==
  MovePackage("0xA", 1, <<ModuleEntry("m", TRUE, cm)>>, origin, linkage)

PlainClientModule(fieldSig, instr) ==
  ClientModule("0xA", "0xA", "m", TRUE, fieldSig, "m", << >>, << >>, instr, U64)

\* Clients whose struct field refers to a struct S or T by handle.
TypeClients ==
  {Client(l, o, PlainClientModule(SigStruct(Handle(a, "m", n)), RawPlain("Nop"))) :
     l \in Linkages, o \in Origins("S") \cup Origins("T"), a \in Addrs, n \in {"S", "T"}}

\* Clients whose function f calls g by handle.
CallClients ==
  {Client(l, o, ClientModule(self, self, "m", TRUE, U64, "m", << >>, << >>,
                             RawCall(Handle(a, "m", "g")), U64)) :
     l \in Linkages, o \in {<< >>, <<TypeOrigin("m", "g", "0xC")>>},
     self \in {"0xA", "0xB"}, a \in Addrs}
  \cup
  {Client(l, << >>, ClientModule("0xA", "0xA", "m", TRUE, U64, "m", << >>, << >>,
                                 RawCallGeneric(Handle(a, "m", "g"), <<SigVector(U64)>>), U64)) :
     l \in {EmptyMap, ("0xB" :> UpgradeInfo("0xC", 2))}, a \in Addrs}

\* Clients whose function f packs its struct T.
PackClients ==
  {Client(l, o, ClientModule("0xA", tdef, "m", TRUE, U64, "m", << >>, << >>,
                             RawStructOp("Pack", 0),
                             IF typed THEN SigStruct(Handle(tdef, "m", "T")) ELSE U64)) :
     l \in Linkages, o \in Origins("T"), tdef \in Addrs, typed \in BOOLEAN}

\* Signatures and instructions of every other shape.
OtherSigs ==
  {SigVector(U64), SigVector(SigStruct(Handle("0xB", "m", "S"))),
   SigStructInstantiation(Handle("0xB", "m", "S"), <<U64, SigStruct(Handle("0xC", "m", "S"))>>),
   SigReference(SigStruct(Handle("0xA", "m", "T"))),
   SigMutableReference(SigPrim("Address")), SigTypeParameter(1), SigPrim("Bool"),
   SigPrim("Signer")}

OtherInstrs ==
  {RawOperand("BrTrue", 1), RawOperand("Branch", 0), RawOperand("LdConst", 0),
   RawOperand("LdU64", 7), RawOperand("CopyLoc", 0), RawPlain("Add"),
   RawStructOp("Unpack", 0),
   RawStructOpGeneric("PackGeneric", 0, <<SigStruct(Handle("0xB", "m", "S"))>>),
   RawStructOpGeneric("UnpackGeneric", 0, <<U64>>),
   RawFieldOp("ImmBorrowField", 0, 0), RawFieldOp("MutBorrowField", 0, 0),
   RawFieldOpGeneric("ImmBorrowFieldGeneric", 0, 0, <<U64>>),
   RawFieldOpGeneric("MutBorrowFieldGeneric", 0, 0, <<SigVector(U64)>>),
   RawVecOp("VecPack", SigStruct(Handle("0xB", "m", "S")), 2),
   RawVecOp("VecLen", U64, 0), RawVecOp("VecUnpack", SigVector(U64), 3),
   RawStructOp("MoveTo", 0), RawStructOp("Exists", 0)}

OtherClients ==
  {Client(EmptyMap, << >>, PlainClientModule(sig, RawPlain("Nop"))) : sig \in OtherSigs}
  \cup
  {Client(EmptyMap, << >>, PlainClientModule(U64, instr)) : instr \in OtherInstrs}
  \cup
  {Client(EmptyMap, << >>,
          ClientModule("0xA", "0xA", "m", TRUE, U64, "m", <<sig>>, <<sig>>,
                       RawPlain("Nop"), sig)) :
     sig \in {SigStruct(Handle("0xA", "m", "T")), SigStruct(Handle("0xB", "m", "S")),
              SigPrim("Signer")}}
  \cup
  { \* a struct with native field information
    Client(EmptyMap, << >>,
           ClientModule("0xA", "0xA", "m", FALSE, U64, "m", << >>, << >>, RawPlain("Nop"), U64)),
    \* a struct definition whose handle names another module
    Client(EmptyMap, << >>,
           ClientModule("0xA", "0xA", "n", TRUE, U64, "m", << >>, << >>, RawPlain("Nop"), U64)),
    \* a function definition whose handle names another module
    Client(EmptyMap, << >>,
           ClientModule("0xA", "0xA", "m", TRUE, U64, "n", << >>, << >>, RawPlain("Nop"), U64)),
    \* bytes that do not deserialize
    MovePackage("0xA", 1, <<ModuleEntry("m", FALSE, EmptyModule)>>, << >>, EmptyMap),
    \* a module stored under a name that is not the name in its ModuleId
    MovePackage("0xA", 1, <<ModuleEntry("n", TRUE, LibModule("0xA", "m"))>>, << >>, EmptyMap),
    \* a package without modules
    MovePackage("0xB", 1, << >>, << >>, EmptyMap),
    \* a package with two modules
    MovePackage("0xB", 2, <<ModuleEntry("m", TRUE, LibModule("0xA", "m")),
                            ModuleEntry("n", TRUE, LibModule("0xA", "n"))>>,
                << >>, ("0xA" :> UpgradeInfo("0xB", 2)))}

\* A client whose struct field and whose call both refer to the library at
\* 0xB.
ForwardClients ==
  {Client(EmptyMap, << >>,
          PlainClientModule(SigStruct(Handle("0xB", "m", "S")), RawCall(Handle("0xB", "m", "g"))))}

\* A client whose generic call has three type arguments, one of them a struct
\* of the library at 0xB.
GenericClients ==
  {Client(EmptyMap, << >>,
          PlainClientModule(U64,
            RawCallGeneric(Handle("0xB", "m", "g"),
                           <<SigVector(U64), SigStruct(Handle("0xB", "m", "S")),
                             SigTypeParameter(0)>>)))}

Clients ==
  TypeClients \cup CallClients \cup PackClients \cup OtherClients \cup ForwardClients
  \cup GenericClients

\* The batches: up to MaxPackages packages in any order, library packages
\* (any of them repeated) and at most one client.
LibBatches(n) == [1..n -> Libs]

ClientBatches(n) ==
  {[i \in 1..n |-> IF i = pos THEN c ELSE IF i < pos THEN ls[i] ELSE ls[i - 1]] :
     pos \in 1..n, c \in Clients, ls \in LibBatches(n - 1)}

Batches == UNION {LibBatches(n) \cup ClientBatches(n) : n \in 1..MaxPackages}

----------------------------------------------------------------------------
(* The build as a state machine *)

VARIABLES
  input,          \* the Vec<MovePackage> handed to build_environment
  pc,             \* the stage build_environment is about to run
  interner,       \* the IdentifierMap
  packages, package_map,
  modules, module_map,
  structs, struct_map,
  functions, function_map,
  env,            \* what build_environment has returned
  outcome,        \* "running", "returned" or "panicked"
  panic,          \* the kind of the panic
  config,         \* PassesConfig.passes, as handed to passes_manager::run
  ran,            \* the passes run so far, in order
  idents,         \* the get_identifier_idx calls made on a table of its own
  store,          \* InMemoryCache.store: the object stored under each id
  package_cache,  \* InMemoryCache.packages
  thread,         \* the call each thread is in, and what it holds
  served,         \* the last value a call of get_package_object returned
  debug_assertions \* whether the build has cfg(debug_assertions)

vars == <<input, pc, interner, packages, package_map, modules, module_map,
          structs, struct_map, functions, function_map, env, outcome, panic,
          config, ran, idents, store, package_cache, thread, served,
          debug_assertions>>

\* The state of the in-memory execution cache.
cache == <<store, package_cache, thread, served, debug_assertions>>

\* The state outside build_environment.
outside == <<config, ran, idents, cache>>

\* An object of the store, by what get_package_object reads of it.
Object(isPackage, digest) == [present |-> TRUE, is_package |-> isPackage, digest |-> digest]

\* Option::None of an object.
NoObject == [present |-> FALSE, is_package |-> FALSE, digest |-> 0]

ObjectIDs == {"0x2", "0x3"}

Digests == {1, 2}

Threads == {1, 2}

\* A thread that is in no call.
Idle == [pc |-> "idle", id |-> "", rest |-> << >>, p |-> NoObject]

\* What a call of get_package_object returned: the kind of the value, the
\* package in it and, for a package served from the cache, the object the
\* store held under the id at that moment.
Returned(kind, id, p, stored) == [kind |-> kind, id |-> id, p |-> p, stored |-> stored]

NothingServed == Returned("", "", NoObject, NoObject)

\* No cache in use.
NoCache ==
  /\ store = << >>
  /\ package_cache = << >>
  /\ thread = << >>
  /\ served = NothingServed
  /\ debug_assertions = FALSE

GlobalEnv(built, pk, md, fn, st, ids, pkMap, mdMap, fnMap, stMap, idMap) ==
  [built |-> built, packages |-> pk, modules |-> md, functions |-> fn,
   structs |-> st, identifiers |-> ids, package_map |-> pkMap,
   module_map |-> mdMap, function_map |-> fnMap, struct_map |-> stMap,
   identifier_map |-> idMap]

\* No environment: nothing has been returned.
NoEnv ==
  GlobalEnv(FALSE, << >>, << >>, << >>, << >>, << >>, EmptyMap, EmptyMap,
            EmptyMap, EmptyMap, EmptyMap)

Init ==
  /\ input \in Batches
  /\ pc = "load_packages"
  /\ interner = NewIdentifierMap
  /\ packages = << >> /\ package_map = EmptyMap
  /\ modules = << >> /\ module_map = EmptyMap
  /\ structs = << >> /\ struct_map = EmptyMap
  /\ functions = << >> /\ function_map = EmptyMap
  /\ env = NoEnv
  /\ outcome = "running"
  /\ panic = ""
  /\ config = << >>
  /\ ran = << >>
  /\ idents = << >>
  /\ NoCache

\* A failed stage that hands what was built so far back to the caller instead
\* of unwinding through it.
Unwind_ReturnPartial(kind) ==
  /\ pc' = "done"
  /\ outcome' = "panicked"
  /\ panic' = kind
  /\ env' = GlobalEnv(TRUE, packages, modules, functions, structs,
                      interner.identifiers, package_map, module_map,
                      function_map, struct_map, interner.identifier_map)
  /\ UNCHANGED <<input, interner, packages, package_map, modules, module_map,
                 structs, struct_map, functions, function_map>>

\* A panic unwinds build_environment: its locals are dropped, nothing is
\* returned.
Unwind(kind) ==
  /\ pc' = "unwound"
  /\ outcome' = "panicked"
  /\ panic' = kind
  /\ interner' = NewIdentifierMap
  /\ packages' = << >> /\ package_map' = EmptyMap
  /\ modules' = << >> /\ module_map' = EmptyMap
  /\ structs' = << >> /\ struct_map' = EmptyMap
  /\ functions' = << >> /\ function_map' = EmptyMap
  /\ UNCHANGED <<input, env>>

LoadPackages ==
  /\ pc = "load_packages"
  /\ UNCHANGED outside
  /\ \E r \in {load_packages(input)} :
        /\ packages' = r.packages
        /\ package_map' = r.package_map
  /\ pc' = "load_modules"
  /\ UNCHANGED <<input, interner, modules, module_map, structs, struct_map,
                 functions, function_map, env, outcome, panic>>

LoadModules ==
  /\ pc = "load_modules"
  /\ UNCHANGED outside
  /\ \E r \in {load_modules(interner, packages)} :
        IF r.ok
        THEN /\ interner' = r.v.im
             /\ packages' = r.v.packages
             /\ modules' = r.v.modules
             /\ module_map' = r.v.module_map
             /\ pc' = "load_structs"
             /\ UNCHANGED <<input, package_map, structs, struct_map, functions,
                            function_map, env, outcome, panic>>
        ELSE Unwind(r.err)

LoadStructs ==
  /\ pc = "load_structs"
  /\ UNCHANGED outside
  /\ \E r \in {load_structs(interner, modules, packages)} :
        IF r.ok
        THEN /\ interner' = r.v.im
             /\ modules' = r.v.modules
             /\ structs' = r.v.structs
             /\ struct_map' = r.v.struct_map
             /\ pc' = "load_fields"
             /\ UNCHANGED <<input, packages, package_map, module_map, functions,
                            function_map, env, outcome, panic>>
        ELSE Unwind(r.err)

LoadFields ==
  /\ pc = "load_fields"
  /\ UNCHANGED outside
  /\ \E r \in {load_fields(structs, interner, packages, struct_map, modules)} :
        IF r.ok
        THEN /\ interner' = r.v.im
             /\ structs' = r.v.structs
             /\ pc' = "load_constants"
             /\ UNCHANGED <<input, packages, package_map, modules, module_map,
                            struct_map, functions, function_map, env, outcome, panic>>
        ELSE Unwind(r.err)

LoadConstants ==
  /\ pc = "load_constants"
  /\ UNCHANGED outside
  /\ \E r \in {load_constants(packages, struct_map, modules)} :
        IF r.ok
        THEN /\ modules' = r.v
             /\ pc' = "load_functions"
             /\ UNCHANGED <<input, interner, packages, package_map, module_map,
                            structs, struct_map, functions, function_map, env,
                            outcome, panic>>
        ELSE Unwind(r.err)

LoadFunctions ==
  /\ pc = "load_functions"
  /\ UNCHANGED outside
  /\ \E r \in {load_functions(interner, modules, packages, struct_map)} :
        IF r.ok
        THEN /\ interner' = r.v.im
             /\ modules' = r.v.modules
             /\ functions' = r.v.functions
             /\ function_map' = r.v.function_map
             /\ pc' = "load_code"
             /\ UNCHANGED <<input, packages, package_map, module_map, structs,
                            struct_map, env, outcome, panic>>
        ELSE Unwind(r.err)

LoadCode ==
  /\ pc = "load_code"
  /\ UNCHANGED outside
  /\ \E r \in {load_code(functions, packages, struct_map, modules, function_map)} :
        IF r.ok
        THEN /\ functions' = r.v
             /\ pc' = "return"
             /\ UNCHANGED <<input, interner, packages, package_map, modules,
                            module_map, structs, struct_map, function_map, env,
                            outcome, panic>>
        ELSE Unwind(r.err)

\* The end of build_environment: the locals are moved into the GlobalEnv.
Return ==
  /\ pc = "return"
  /\ UNCHANGED outside
  /\ env' = GlobalEnv(TRUE, packages, modules, functions, structs,
                      interner.identifiers, package_map, module_map,
                      function_map, struct_map, interner.identifier_map)
  /\ pc' = "done"
  /\ outcome' = "returned"
  /\ interner' = NewIdentifierMap
  /\ packages' = << >> /\ package_map' = EmptyMap
  /\ modules' = << >> /\ module_map' = EmptyMap
  /\ structs' = << >> /\ struct_map' = EmptyMap
  /\ functions' = << >> /\ function_map' = EmptyMap
  /\ UNCHANGED <<input, panic>>

Next ==
  \/ LoadPackages
  \/ LoadModules
  \/ LoadStructs
  \/ LoadFields
  \/ LoadConstants
  \/ LoadFunctions
  \/ LoadCode
  \/ Return

Spec == Init /\ [][Next]_vars

----------------------------------------------------------------------------
(* The caller: build_environment, then the passes manager over its result *)

Pass == {"PackageStats", "BytecodeStats", "PrintEnv", "OneTimeWitness", "InitReporter"}

\* The pass lists of the configuration files considered.
Configs ==
  {<< >>,
   <<"PackageStats">>,
   <<"PrintEnv", "BytecodeStats">>,
   <<"OneTimeWitness", "InitReporter", "PackageStats">>}

build == <<input, interner, packages, package_map, modules, module_map,
           structs, struct_map, functions, function_map, env, outcome, panic>>

\* The caller passes the environment build_environment returned to run.
StartPasses ==
  /\ pc = "done"
  /\ \E c \in Configs : config' = c
  /\ pc' = "run"
  /\ UNCHANGED <<build, ran, idents>>
  /\ UNCHANGED cache

\* One iteration of the loop of run: the next pass of the list reads env.
RunPass ==
  /\ pc = "run"
  /\ Len(ran) < Len(config)
  /\ config[Len(ran) + 1] \in Pass
  /\ ran' = Append(ran, config[Len(ran) + 1])
  /\ UNCHANGED <<build, pc, config, idents>>
  /\ UNCHANGED cache

RunDone ==
  /\ pc = "run"
  /\ Len(ran) = Len(config)
  /\ pc' = "exit"
  /\ UNCHANGED <<build, config, ran, idents>>
  /\ UNCHANGED cache

NextMain ==
  \/ Next
  \/ StartPasses
  \/ RunPass
  \/ RunDone

SpecMain == Init /\ [][NextMain]_vars

----------------------------------------------------------------------------
(* The package cache of the in-memory execution cache *)

\* What the store can hold under an id: nothing or a package of any digest
\* under the system package id 0x2; nothing, a package or an object that is
\* no package under 0x3.
StoredObjects(id) ==
  IF id = "0x2" THEN {NoObject} \cup {Object(TRUE, d) : d \in Digests}
  ELSE {NoObject, Object(TRUE, 1), Object(FALSE, 1)}

\* The lists of system package ids handed to force_reload_system_packages.
SystemPackageIds == {<<"0x2">>, <<"0x2", "0x3">>}

\* InMemoryCache::new over a store: nothing is cached, no call is under way.
InitCache ==
  /\ input = << >>
  /\ pc = "cache"
  /\ interner = NewIdentifierMap
  /\ packages = << >> /\ package_map = EmptyMap
  /\ modules = << >> /\ module_map = EmptyMap
  /\ structs = << >> /\ struct_map = EmptyMap
  /\ functions = << >> /\ function_map = EmptyMap
  /\ env = NoEnv
  /\ outcome = "running"
  /\ panic = ""
  /\ config = << >>
  /\ ran = << >>
  /\ idents = << >>
  /\ store \in {s \in [ObjectIDs -> UNION {StoredObjects(id) : id \in ObjectIDs}] :
                  \A id \in ObjectIDs : s[id] \in StoredObjects(id)}
  /\ package_cache = [id \in ObjectIDs |-> NoObject]
  /\ thread = [t \in Threads |-> Idle]
  /\ served = NothingServed
  /\ debug_assertions \in BOOLEAN

nocache == <<build, pc, config, ran, idents, debug_assertions>>

\* get_package_object up to the cache lookup: a hit returns the cached
\* package, after the consistency assertion in a build with debug assertions;
\* a miss goes on to the store.
GetPackageObject(t, id) ==
  /\ pc = "cache"
  /\ thread[t].pc = "idle"
  /\ IF package_cache[id].present
     THEN IF debug_assertions
             /\ (~store[id].present \/ store[id].digest # package_cache[id].digest)
          THEN /\ thread' = [thread EXCEPT ![t].pc = "panicked"]
               /\ UNCHANGED served
          ELSE /\ served' = Returned("Cached", id, package_cache[id], store[id])
               /\ UNCHANGED thread
     ELSE /\ thread' = [thread EXCEPT ![t] = [Idle EXCEPT !.pc = "get_object", !.id = id]]
          /\ UNCHANGED served
  /\ UNCHANGED <<nocache, store, package_cache>>

\* self.store.get_object(package_id) after a miss.
GetObject(t) ==
  /\ pc = "cache"
  /\ thread[t].pc = "get_object"
  /\ IF store[thread[t].id].present /\ store[thread[t].id].is_package
     THEN /\ thread' = [thread EXCEPT ![t].pc = "insert", ![t].p = store[thread[t].id]]
          /\ UNCHANGED served
     ELSE /\ thread' = [thread EXCEPT ![t] = Idle]
          /\ served' = Returned(IF store[thread[t].id].present
                                THEN "MoveObjectAsPackage" ELSE "None",
                                thread[t].id, NoObject, NoObject)
  /\ UNCHANGED <<nocache, store, package_cache>>

\* self.packages.insert(*package_id, p.clone()); Ok(Some(p))
Insert(t) ==
  /\ pc = "cache"
  /\ thread[t].pc = "insert"
  /\ package_cache' = [package_cache EXCEPT ![thread[t].id] = thread[t].p]
  /\ served' = Returned("Loaded", thread[t].id, thread[t].p, NoObject)
  /\ thread' = [thread EXCEPT ![t] = Idle]
  /\ UNCHANGED <<nocache, store>>

\* force_reload_system_packages is called with a list of ids.
ForceReloadSystemPackages(t, ids) ==
  /\ pc = "cache"
  /\ thread[t].pc = "idle"
  /\ thread' = [thread EXCEPT ![t] = [Idle EXCEPT !.pc = "reload", !.rest = ids]]
  /\ UNCHANGED <<nocache, store, package_cache, served>>

\* The next id of the loop.
Advance(t) ==
  IF Len(thread[t].rest) > 1
  THEN [thread EXCEPT ![t] = [Idle EXCEPT !.pc = "reload", !.rest = Tail(thread[t].rest)]]
  ELSE [thread EXCEPT ![t] = Idle]

\* One iteration of the loop up to the read of the store: an id without an
\* object is passed over, an object that is no package fails the assertion.
Reload(t) ==
  /\ pc = "cache"
  /\ thread[t].pc = "reload"
  /\ IF ~store[Head(thread[t].rest)].present THEN thread' = Advance(t)
     ELSE IF ~store[Head(thread[t].rest)].is_package
     THEN thread' = [thread EXCEPT ![t].pc = "panicked"]
     ELSE thread' = [thread EXCEPT ![t].pc = "reload_insert",
                                   ![t].p = store[Head(thread[t].rest)]]
  /\ UNCHANGED <<nocache, store, package_cache, served>>

\* self.packages.insert(*package_id, PackageObject::new(p))
ReloadInsert(t) ==
  /\ pc = "cache"
  /\ thread[t].pc = "reload_insert"
  /\ package_cache' = [package_cache EXCEPT ![Head(thread[t].rest)] = thread[t].p]
  /\ thread' = Advance(t)
  /\ UNCHANGED <<nocache, store, served>>

\* The store gets another object under an id, or loses the one it has.
StoreChange(id, object) ==
  /\ pc = "cache"
  /\ object # store[id]
  /\ store' = [store EXCEPT ![id] = object]
  /\ UNCHANGED <<nocache, package_cache, thread, served>>

NextCache ==
  \/ \E t \in Threads, id \in ObjectIDs : GetPackageObject(t, id)
  \/ \E t \in Threads : GetObject(t)
  \/ \E t \in Threads : Insert(t)
  \/ \E t \in Threads, ids \in SystemPackageIds : ForceReloadSystemPackages(t, ids)
  \/ \E t \in Threads : Reload(t)
  \/ \E t \in Threads : ReloadInsert(t)
  \/ \E id \in ObjectIDs : \E object \in StoredObjects(id) : StoreChange(id, object)

SpecCache == InitCache /\ [][NextCache]_vars

\* GlobalEnv::modules_in_package
modules_in_package(e, package) ==
  [k \in DOMAIN package.modules |-> e.modules[package.modules[k] + 1]]

----------------------------------------------------------------------------
(* The walkers: the sequence of entities the visitor is called with *)

walk_packages(e) == [i \in DOMAIN e.packages |-> e.packages[i]]

walk_modules(e) == [i \in DOMAIN e.modules |-> e.modules[i]]

walk_structs(e) == [i \in DOMAIN e.structs |-> e.structs[i]]

\* walk_functions calling the visitor only for the functions with code.
walk_functions_WithCode(e) ==
  SelectSeq([i \in DOMAIN e.functions |-> e.functions[i]], LAMBDA f : f.code.present)

walk_functions(e) == [i \in DOMAIN e.functions |-> e.functions[i]]

----------------------------------------------------------------------------
(* The identifier table on its own: any sequence of get_identifier_idx calls *)

MaxInterned == 4

Idents == {"m", "T", "f"}

InitIntern ==
  /\ input = << >>
  /\ pc = "intern"
  /\ interner = NewIdentifierMap
  /\ packages = << >> /\ package_map = EmptyMap
  /\ modules = << >> /\ module_map = EmptyMap
  /\ structs = << >> /\ struct_map = EmptyMap
  /\ functions = << >> /\ function_map = EmptyMap
  /\ env = NoEnv
  /\ outcome = "running"
  /\ panic = ""
  /\ config = << >>
  /\ ran = << >>
  /\ idents = << >>
  /\ NoCache

\* One call of get_identifier_idx; idents keeps the identifier, the index
\* returned and the size of the pool after the call.
Intern(ident) ==
  /\ pc = "intern"
  /\ Len(idents) < MaxInterned
  /\ \E r \in {get_identifier_idx(interner, ident)} :
        /\ interner' = r.im
        /\ idents' = Append(idents, [ident |-> ident, idx |-> r.idx,
                                     size |-> Len(r.im.identifiers)])
  /\ UNCHANGED <<input, pc, packages, package_map, modules, module_map, structs,
                 struct_map, functions, function_map, env, outcome, panic, config, ran>>
  /\ UNCHANGED cache

NextIntern == \E ident \in Idents : Intern(ident)

SpecIntern == InitIntern /\ [][NextIntern]_vars

----------------------------------------------------------------------------
(* Reading a returned environment against the input it was built from *)

Built == pc = "done" /\ env.built

RECURSIVE SigRefs(_, _)
\* The struct references of a signature token, each with the struct index
\* the resolved type carries in the same position.
SigRefs(sig, type) ==
  (IF sig.k \in {"Struct", "StructInstantiation"}
   THEN {[h |-> sig.h, idx |-> type.idx]} ELSE {})
  \cup UNION {SigRefs(sig.args[a], type.args[a]) : a \in DOMAIN sig.args}

SeqRefs(sigs, types) == UNION {SigRefs(sigs[a], types[a]) : a \in DOMAIN sigs}

FromModule(m, refs) == {[module |-> m, h |-> r.h, idx |-> r.idx] : r \in refs}

RawModuleOf(e, m) == e.modules[m + 1].module

\* Every struct reference of a type of the environment: constant types, field
\* types, parameters, returns, locals, and the types an instruction carries.
\* module is the index of the module the reference is made from.
TypeRefs(e) ==
  UNION {FromModule(m - 1,
           SeqRefs(e.modules[m].module.constant_pool,
                   [c \in DOMAIN e.modules[m].constants |-> e.modules[m].constants[c].type_])) :
         m \in DOMAIN e.modules}
  \cup
  UNION {LET st == e.structs[s]
             def == RawModuleOf(e, st.module).struct_defs[st.def_idx + 1]
         IN FromModule(st.module,
              SeqRefs([j \in DOMAIN def.fields |-> def.fields[j].sig],
                      [j \in DOMAIN st.fields |-> st.fields[j].type_])) :
         s \in DOMAIN e.structs}
  \cup
  UNION {LET fn == e.functions[f]
             def == RawModuleOf(e, fn.module).function_defs[fn.def_idx + 1]
         IN FromModule(fn.module,
              SeqRefs(def.parameters, fn.parameters)
              \cup SeqRefs(def.returns, fn.returns)
              \cup (IF fn.code.present
                    THEN SeqRefs(def.locals, fn.code.locals)
                         \cup UNION {SeqRefs(def.code[k].sigs, fn.code.code[k].types) :
                                     k \in DOMAIN fn.code.code}
                    ELSE {})) :
         f \in DOMAIN e.functions}

\* Every instruction of the environment, raw and resolved.
Instrs(e) ==
  UNION {LET fn == e.functions[f]
             def == RawModuleOf(e, fn.module).function_defs[fn.def_idx + 1]
         IN {[module |-> fn.module, function |-> f - 1, raw |-> def.code[k],
              resolved |-> fn.code.code[k]] : k \in DOMAIN fn.code.code} :
         f \in DOMAIN e.functions}

\* The struct references of instructions: pack, unpack and field borrows, by
\* the handle of the struct definition they name.
DefRefs(e) ==
  {[module |-> i.module,
    h |-> RawModuleOf(e, i.module).struct_defs[i.raw.def + 1].handle,
    idx |-> i.resolved.idx] :
   i \in {x \in Instrs(e) :
            x.raw.op \in StructOps \cup StructGenericOps \cup FieldOps \cup FieldGenericOps}}

\* The calls, by function handle.
CallRefs(e) ==
  {[module |-> i.module, h |-> i.raw.h, idx |-> i.resolved.idx] :
   i \in {x \in Instrs(e) : x.raw.op \in CallOps}}

\* The package a reference is made from.
PackageOfRef(e, r) == e.packages[e.modules[r.module + 1].package + 1]

HasOrigin(e, r) == <<r.h.module, r.h.name>> \in DOMAIN PackageOfRef(e, r).type_origin
OriginOf(e, r) == PackageOfRef(e, r).type_origin[<<r.h.module, r.h.name>>]
LinkageOf(e, r) == PackageOfRef(e, r).package.linkage_table

\* The id of the package that owns a struct / a function of the pool.
StructPackageId(e, idx) == e.packages[e.structs[idx + 1].package + 1].id
FunctionPackageId(e, idx) == e.packages[e.functions[idx + 1].package + 1].id

----------------------------------------------------------------------------
(* C1 *)

\* The address the claim starts from, and the address after the linkage step.
C1_Start(e, r) == IF HasOrigin(e, r) THEN OriginOf(e, r) ELSE r.h.addr
C1_Linked(e, r) ==
  IF C1_Start(e, r) \in DOMAIN LinkageOf(e, r)
  THEN LinkageOf(e, r)[C1_Start(e, r)].upgraded_id
  ELSE C1_Start(e, r)

\* C1: every struct reference of a type is resolved in the fixed order: the
\* start address is the type-origin entry of (module, struct) when the
\* referencing package has one and the handle address otherwise; the linkage
\* table is looked up with that start address; the struct is the one
\* registered in struct_map under <<resulting address, module, struct>>.
C1_TwoTablesInOrder ==
  Built =>
    \A r \in TypeRefs(env) :
      /\ <<C1_Linked(env, r), r.h.module, r.h.name>> \in DOMAIN env.struct_map
      /\ r.idx = env.struct_map[<<C1_Linked(env, r), r.h.module, r.h.name>>]

\* A built environment with a reference whose origin entry differs from the
\* handle address, where the linkage table has an entry for the origin
\* address and another result for the handle address.
C1_Witness ==
  /\ Built
  /\ \E r \in TypeRefs(env) :
       /\ HasOrigin(env, r)
       /\ OriginOf(env, r) # r.h.addr
       /\ OriginOf(env, r) \in DOMAIN LinkageOf(env, r)
       /\ r.h.addr \notin DOMAIN LinkageOf(env, r)
       /\ C1_Linked(env, r) # r.h.addr

----------------------------------------------------------------------------
(* C2 *)

\* C2: when the referencing package's linkage table maps old_addr to new_addr,
\* every struct reference whose handle address is old_addr (in a type or in a
\* pack, unpack or field-borrow instruction), and whose type has no
\* type-origin entry, resolves to the struct of the package at new_addr.
C2_UpgradePrecedence ==
  Built =>
    \A r \in TypeRefs(env) \cup DefRefs(env) :
      (r.h.addr \in DOMAIN LinkageOf(env, r) /\ ~HasOrigin(env, r))
        => StructPackageId(env, r.idx) = LinkageOf(env, r)[r.h.addr].upgraded_id

----------------------------------------------------------------------------
(* C3 *)

C3_Start(e, r) == IF HasOrigin(e, r) THEN OriginOf(e, r) ELSE r.h.addr

\* C3: a type-origin entry takes precedence over the handle address. The
\* struct a reference resolves to has the handle's module and struct name;
\* an instruction's struct is owned by the package at the origin address
\* when the package has an entry for (module, struct) and at the handle
\* address only when it has none; a type's struct is owned by the package the
\* linkage table gives for that same start address.
C3_OriginPrecedence ==
  Built =>
    /\ \A r \in DefRefs(env) :
         /\ StructPackageId(env, r.idx) = C3_Start(env, r)
         /\ env.identifiers[env.structs[r.idx + 1].name + 1] = r.h.name
    /\ \A r \in TypeRefs(env) :
         /\ StructPackageId(env, r.idx) =
              (IF C3_Start(env, r) \in DOMAIN LinkageOf(env, r)
               THEN LinkageOf(env, r)[C3_Start(env, r)].upgraded_id
               ELSE C3_Start(env, r))
         /\ env.identifiers[env.structs[r.idx + 1].name + 1] = r.h.name
         /\ env.identifiers[env.modules[env.structs[r.idx + 1].module + 1].name + 1]
              = r.h.module

\* A built environment where a type and an instruction each name a struct
\* whose origin entry differs from the handle address, both with no linkage
\* entry in play.
C3_Witness ==
  /\ Built
  /\ \E r \in TypeRefs(env) :
       /\ HasOrigin(env, r)
       /\ OriginOf(env, r) # r.h.addr
       /\ LinkageOf(env, r) = EmptyMap
       /\ StructPackageId(env, r.idx) = OriginOf(env, r)
  /\ \E r \in DefRefs(env) :
       /\ HasOrigin(env, r)
       /\ OriginOf(env, r) # r.h.addr
       /\ StructPackageId(env, r.idx) = OriginOf(env, r)

----------------------------------------------------------------------------
(* C4 *)

\* The referencing package itself declares the struct the reference names.
DeclaredInOwnPackage(e, r) ==
  \E s \in DOMAIN e.structs :
    /\ e.structs[s].package = e.modules[r.module + 1].package
    /\ e.identifiers[e.structs[s].name + 1] = r.h.name
    /\ e.identifiers[e.modules[e.structs[s].module + 1].name + 1] = r.h.module

\* C4: for a package with an empty linkage table, a reference made from one
\* of its modules to a type of the package with no type-origin entry, named
\* by the package's own address, resolves to a struct owned by that same
\* package.
C4_NoUpgradeIdentity ==
  Built =>
    \A r \in TypeRefs(env) :
      (/\ LinkageOf(env, r) = EmptyMap
       /\ ~HasOrigin(env, r)
       /\ r.h.addr = PackageOfRef(env, r).id
       /\ DeclaredInOwnPackage(env, r))
        => env.structs[r.idx + 1].package = env.modules[r.module + 1].package

----------------------------------------------------------------------------
(* C5 *)

\* C5: a call whose function handle address is the calling module's own
\* address resolves to a function owned by the caller's package, whatever
\* the linkage table holds.
C5_IntraPackageCall ==
  Built =>
    \A r \in CallRefs(env) :
      r.h.addr = RawModuleOf(env, r.module).self_addr
        => env.functions[r.idx + 1].package = env.modules[r.module + 1].package

----------------------------------------------------------------------------
(* C6 *)

C6_Linked(e, r) ==
  IF r.h.addr \in DOMAIN LinkageOf(e, r)
  THEN LinkageOf(e, r)[r.h.addr].upgraded_id
  ELSE r.h.addr

\* C6: a call whose function handle address differs from the calling
\* module's own address resolves to the function registered under
\* <<linkage[address].upgraded_id or the address itself, module, function>>;
\* a type-origin entry for the same (module, name) plays no part.
C6_CrossPackageCall ==
  Built =>
    \A r \in CallRefs(env) :
      r.h.addr # RawModuleOf(env, r.module).self_addr
        => /\ <<C6_Linked(env, r), r.h.module, r.h.name>> \in DOMAIN env.function_map
           /\ r.idx = env.function_map[<<C6_Linked(env, r), r.h.module, r.h.name>>]
           /\ FunctionPackageId(env, r.idx) = C6_Linked(env, r)

\* A built environment with a cross-package call whose (module, name) has a
\* type-origin entry pointing at a package other than the callee's.
C6_Witness ==
  /\ Built
  /\ \E r \in CallRefs(env) :
       /\ r.h.addr # RawModuleOf(env, r.module).self_addr
       /\ HasOrigin(env, r)
       /\ OriginOf(env, r) # FunctionPackageId(env, r.idx)
  /\ \E r \in CallRefs(env) :
       /\ r.h.addr # RawModuleOf(env, r.module).self_addr
       /\ r.h.addr \in DOMAIN LinkageOf(env, r)

----------------------------------------------------------------------------
(* C7 *)

Positions(pool) == 0 .. (Len(pool) - 1)

\* C7: every index of the returned environment is a position of the pool it
\* refers to: struct indices of types and of pack / unpack / field-borrow
\* instructions, function indices of calls, the ownership lists and owner
\* fields of packages, modules, structs and functions, the identifier indices
\* of names, and the values of the five maps.
C7_IndexValidity ==
  Built =>
    /\ \A r \in TypeRefs(env) \cup DefRefs(env) : r.idx \in Positions(env.structs)
    /\ \A r \in CallRefs(env) : r.idx \in Positions(env.functions)
    /\ \A p \in DOMAIN env.packages :
         /\ env.packages[p].self_idx \in Positions(env.packages)
         /\ Range(env.packages[p].modules) \subseteq Positions(env.modules)
    /\ \A m \in DOMAIN env.modules :
         /\ env.modules[m].self_idx \in Positions(env.modules)
         /\ env.modules[m].package \in Positions(env.packages)
         /\ env.modules[m].name \in Positions(env.identifiers)
         /\ Range(env.modules[m].structs) \subseteq Positions(env.structs)
         /\ Range(env.modules[m].functions) \subseteq Positions(env.functions)
    /\ \A t \in DOMAIN env.structs :
         /\ env.structs[t].self_idx \in Positions(env.structs)
         /\ env.structs[t].package \in Positions(env.packages)
         /\ env.structs[t].module \in Positions(env.modules)
         /\ env.structs[t].name \in Positions(env.identifiers)
         /\ \A j \in DOMAIN env.structs[t].fields :
              env.structs[t].fields[j].name \in Positions(env.identifiers)
    /\ \A f \in DOMAIN env.functions :
         /\ env.functions[f].self_idx \in Positions(env.functions)
         /\ env.functions[f].package \in Positions(env.packages)
         /\ env.functions[f].module \in Positions(env.modules)
         /\ env.functions[f].name \in Positions(env.identifiers)
    /\ \A k \in DOMAIN env.package_map : env.package_map[k] \in Positions(env.packages)
    /\ \A k \in DOMAIN env.module_map : env.module_map[k] \in Positions(env.modules)
    /\ \A k \in DOMAIN env.struct_map : env.struct_map[k] \in Positions(env.structs)
    /\ \A k \in DOMAIN env.function_map : env.function_map[k] \in Positions(env.functions)
    /\ \A k \in DOMAIN env.identifier_map :
         env.identifier_map[k] \in Positions(env.identifiers)

\* A built environment of two packages with a struct reference in a type, a
\* struct reference in an instruction, and a struct stored last in its pool.
C7_Witness ==
  /\ Built
  /\ Len(env.packages) > 1
  /\ \E r \in TypeRefs(env) : r.idx = Len(env.structs) - 1
  /\ DefRefs(env) # {}

----------------------------------------------------------------------------
(* C8 *)

RECURSIVE SigHandles(_)
\* The struct handles of a signature token.
SigHandles(sig) ==
  (IF sig.k \in {"Struct", "StructInstantiation"} THEN {sig.h} ELSE {})
  \cup UNION {SigHandles(sig.args[a]) : a \in DOMAIN sig.args}

RECURSIVE SigKinds(_)
SigKinds(sig) == {sig.k} \cup UNION {SigKinds(sig.args[a]) : a \in DOMAIN sig.args}

\* The signatures the build of a module reads.
SigsRead(cm) ==
  Range(cm.constant_pool)
  \cup UNION {{d.fields[j].sig : j \in DOMAIN d.fields} : d \in Range(cm.struct_defs)}
  \cup UNION {Range(d.parameters) \cup Range(d.returns)
              \cup (IF d.has_code
                    THEN Range(d.locals) \cup UNION {Range(bc.sigs) : bc \in Range(d.code)}
                    ELSE {}) :
              d \in Range(cm.function_defs)}

\* The instructions the build of a module reads.
CodeRead(cm) == UNION {IF d.has_code THEN Range(d.code) ELSE {} : d \in Range(cm.function_defs)}

InputModules(inp) ==
  UNION {{[package |-> inp[p], entry |-> inp[p].module_map[j]] :
          j \in DOMAIN inp[p].module_map} : p \in DOMAIN inp}

\* The keys under which the structs and functions of the input are registered:
\* the id of the package, the name of the module, the name of the definition.
RegisteredStructs(inp) ==
  UNION {{<<m.package.id, m.entry.cm.self_name, d.handle.name>> :
          d \in Range(m.entry.cm.struct_defs)} : m \in InputModules(inp)}

RegisteredFunctions(inp) ==
  UNION {{<<m.package.id, m.entry.cm.self_name, d.handle.name>> :
          d \in Range(m.entry.cm.function_defs)} : m \in InputModules(inp)}

C8_Origin(package, h) ==
  IF <<h.module, h.name>> \in DOMAIN type_origin_map(package)
  THEN type_origin_map(package)[<<h.module, h.name>>]
  ELSE h.addr

C8_Linked(package, addr) ==
  IF addr \in DOMAIN package.linkage_table
  THEN package.linkage_table[addr].upgraded_id
  ELSE addr

\* The canonical keys the references of one module resolve to.
StructKeysUsed(m) ==
  {<<C8_Linked(m.package, C8_Origin(m.package, h)), h.module, h.name>> :
   h \in UNION {SigHandles(sig) : sig \in SigsRead(m.entry.cm)}}
  \cup
  {<<C8_Origin(m.package, m.entry.cm.struct_defs[bc.def + 1].handle),
     m.entry.cm.struct_defs[bc.def + 1].handle.module,
     m.entry.cm.struct_defs[bc.def + 1].handle.name>> :
   bc \in {x \in CodeRead(m.entry.cm) :
             x.op \in StructOps \cup StructGenericOps \cup FieldOps \cup FieldGenericOps}}

FunctionKeysUsed(m) ==
  {<<IF bc.h.addr = m.entry.cm.self_addr THEN m.package.id
     ELSE C8_Linked(m.package, bc.h.addr), bc.h.module, bc.h.name>> :
   bc \in {x \in CodeRead(m.entry.cm) : x.op \in CallOps}}

\* Some reference of the input has a canonical key that no definition of the
\* input is registered under.
Dangling(inp) ==
  \E m \in InputModules(inp) :
    \/ ~(StructKeysUsed(m) \subseteq RegisteredStructs(inp))
    \/ ~(FunctionKeysUsed(m) \subseteq RegisteredFunctions(inp))

\* The input has no other cause of failure: every module deserializes under
\* its own name, every struct is declared, every handle of a definition names
\* its own module, every signature token and opcode is a recognized one.
Sound(inp) ==
  \A m \in InputModules(inp) :
    /\ m.entry.valid
    /\ m.entry.name = m.entry.cm.self_name
    /\ \A d \in Range(m.entry.cm.struct_defs) :
         d.declared /\ d.handle.module = m.entry.cm.self_name
    /\ \A d \in Range(m.entry.cm.function_defs) :
         d.handle.module = m.entry.cm.self_name
    /\ \A sig \in SigsRead(m.entry.cm) :
         SigKinds(sig) \subseteq PrimKinds \cup {"Vector", "Reference", "MutableReference",
                                                "Struct", "StructInstantiation",
                                                "TypeParameter"}
    /\ \A bc \in CodeRead(m.entry.cm) :
         bc.op \in PlainOps \cup OperandOps \cup CallOps \cup StructOps
                   \cup StructGenericOps \cup FieldOps \cup FieldGenericOps \cup VecOps

\* C8: a reference whose canonical key is absent from the map never yields an
\* environment and never an index standing in for the missing entity: a
\* build of an input with such a reference does not return; when nothing
\* else is wrong with the input it ends with the missing-key failure
\* (PackageAnalyzerError::MissingKey, the spec's UnresolvedSymbol), and that
\* failure is raised for no other reason.
C8_DanglingFails ==
  /\ Dangling(input) => ~env.built /\ outcome # "returned"
  /\ (pc = "unwound" /\ Dangling(input) /\ Sound(input)) => panic = "MissingKey"
  /\ (pc = "unwound" /\ panic = "MissingKey") => Dangling(input)

\* A build of an otherwise sound input with an absent key, ended by the
\* missing-key failure with no environment.
C8_Witness ==
  /\ pc = "unwound"
  /\ panic = "MissingKey"
  /\ Dangling(input)
  /\ Sound(input)
  /\ ~env.built

----------------------------------------------------------------------------
(* C9 *)

\* The environment holds every entity of the input, fully loaded.
Complete(e, inp) ==
  /\ Len(e.packages) = Len(inp)
  /\ \A p \in DOMAIN inp :
       /\ e.packages[p].package = inp[p]
       /\ Cardinality({m \in DOMAIN e.modules : e.modules[m].package = p - 1})
            = Len(inp[p].module_map)
       /\ \A j \in DOMAIN inp[p].module_map :
            \E m \in DOMAIN e.modules :
              /\ e.modules[m].package = p - 1
              /\ e.modules[m].module = inp[p].module_map[j].cm
  /\ \A m \in DOMAIN e.modules :
       /\ Len(e.modules[m].constants) = Len(e.modules[m].module.constant_pool)
       /\ {e.structs[t].def_idx : t \in {x \in DOMAIN e.structs : e.structs[x].module = m - 1}}
            = Positions(e.modules[m].module.struct_defs)
       /\ {e.functions[f].def_idx :
             f \in {x \in DOMAIN e.functions : e.functions[x].module = m - 1}}
            = Positions(e.modules[m].module.function_defs)
  /\ \A t \in DOMAIN e.structs :
       LET def == RawModuleOf(e, e.structs[t].module).struct_defs[e.structs[t].def_idx + 1]
       IN def.declared /\ Len(e.structs[t].fields) = Len(def.fields)
  /\ \A f \in DOMAIN e.functions :
       LET def == RawModuleOf(e, e.functions[f].module)
                    .function_defs[e.functions[f].def_idx + 1]
       IN /\ Len(e.functions[f].parameters) = Len(def.parameters)
          /\ Len(e.functions[f].returns) = Len(def.returns)
          /\ e.functions[f].code.present = def.has_code
          /\ Len(e.functions[f].code.code) = Len(def.code)
          /\ Len(e.functions[f].code.locals) = Len(def.locals)

Stages == {"load_packages", "load_modules", "load_structs", "load_fields",
           "load_constants", "load_functions", "load_code", "return"}

----------------------------------------------------------------------------
(* C11 *)

\* C11: interning is idempotent.  On every table a sequence of calls can
\* produce, interning a string twice returns the same index both times, the
\* second call leaves the table as it is, and the reverse lookup of the index
\* returns the string; and of the calls made, two calls with the same string
\* returned the same index, the later one without growing the pool.
C11_InternIdempotent ==
  /\ \A s \in Idents :
       \E first \in {get_identifier_idx(interner, s)} :
         \E second \in {get_identifier_idx(first.im, s)} :
           /\ second.idx = first.idx
           /\ second.im = first.im
           /\ first.idx \in 0 .. (Len(first.im.identifiers) - 1)
           /\ get_identifier(second.im, second.idx) = s
  /\ \A j, k \in DOMAIN idents :
       (j < k /\ idents[j].ident = idents[k].ident)
         => /\ idents[k].idx = idents[j].idx
            /\ idents[k].size = idents[k - 1].size

\* A string interned, another one interned, then the first interned again.
C11_Witness ==
  \E j, k \in DOMAIN idents :
    /\ j + 1 < k
    /\ idents[j].ident = idents[k].ident
    /\ idents[j + 1].ident # idents[j].ident
    /\ idents[k].idx = idents[j].idx
    /\ idents[k].idx # idents[j + 1].idx

----------------------------------------------------------------------------
(* C12 *)

\* C12: interning is injective and stable.  After any sequence of calls the
\* pool holds no string twice, identifier_map[s] = i exactly when
\* identifiers[i] = s, two distinct strings were never given the same index,
\* and every index ever returned still designates the string it was returned
\* for.
C12_InternInjective ==
  /\ \A s \in DOMAIN interner.identifier_map :
       /\ interner.identifier_map[s] \in 0 .. (Len(interner.identifiers) - 1)
       /\ interner.identifiers[interner.identifier_map[s] + 1] = s
  /\ \A i \in DOMAIN interner.identifiers :
       /\ interner.identifiers[i] \in DOMAIN interner.identifier_map
       /\ interner.identifier_map[interner.identifiers[i]] = i - 1
  /\ \A i, j \in DOMAIN interner.identifiers :
       i # j => interner.identifiers[i] # interner.identifiers[j]
  /\ \A j, k \in DOMAIN idents :
       idents[j].ident # idents[k].ident => idents[j].idx # idents[k].idx
  /\ \A k \in DOMAIN idents :
       get_identifier(interner, idents[k].idx) = idents[k].ident

\* Every string interned, in a pool of that many entries, after more calls
\* than strings.
C12_Witness ==
  /\ Len(interner.identifiers) = Cardinality(Idents)
  /\ Len(idents) > Cardinality(Idents)
  /\ {idents[k].idx : k \in DOMAIN idents} = 0 .. (Cardinality(Idents) - 1)

----------------------------------------------------------------------------
(* C13 *)

RawFunctionOf(e, f) ==
  RawModuleOf(e, e.functions[f].module).function_defs[e.functions[f].def_idx + 1]

\* C13: for every function with a code unit the resolved instruction list has
\* one instruction per raw instruction, at the same position and of the same
\* opcode, with the operand of a literal, branch or local-slot instruction
\* kept.
C13_RoundTrip ==
  Built =>
    \A f \in DOMAIN env.functions :
      RawFunctionOf(env, f).has_code =>
        /\ Len(env.functions[f].code.code) = Len(RawFunctionOf(env, f).code)
        /\ \A k \in DOMAIN RawFunctionOf(env, f).code :
             /\ env.functions[f].code.code[k].op = RawFunctionOf(env, f).code[k].op
             /\ RawFunctionOf(env, f).code[k].op \in OperandOps
                  => env.functions[f].code.code[k].n = RawFunctionOf(env, f).code[k].n

\* A built environment with a function of two instructions, a call and a
\* return, and another of a single return.
C13_Witness ==
  /\ Built
  /\ \E f \in DOMAIN env.functions :
       /\ Len(RawFunctionOf(env, f).code) = 2
       /\ env.functions[f].code.code[1].op \in CallOps
       /\ env.functions[f].code.code[2].op = "Ret"
  /\ \E f \in DOMAIN env.functions :
       /\ Len(env.functions[f].code.code) = 1
       /\ env.functions[f].code.code[1].op = "Ret"

----------------------------------------------------------------------------
(* C14 *)

\* C14: in a returned environment a function's code is absent exactly when
\* its definition has no code unit; a function with a code unit has its code
\* present with as many instructions as the code unit.
C14_NativeCodeAbsent ==
  Built =>
    \A f \in DOMAIN env.functions :
      /\ env.functions[f].code.present = RawFunctionOf(env, f).has_code
      /\ ~RawFunctionOf(env, f).has_code => env.functions[f].code = NoCode
      /\ RawFunctionOf(env, f).has_code =>
           Len(env.functions[f].code.code) = Len(RawFunctionOf(env, f).code)

\* A built environment with a native function and a function with code.
C14_Witness ==
  /\ Built
  /\ \E f \in DOMAIN env.functions :
       ~RawFunctionOf(env, f).has_code /\ ~env.functions[f].code.present
  /\ \E f \in DOMAIN env.functions :
       /\ RawFunctionOf(env, f).has_code
       /\ env.functions[f].code.present
       /\ Len(env.functions[f].code.code) > 1

----------------------------------------------------------------------------
(* C15 *)

\* C15: the package pool has one entry per input package, in input order;
\* and when two versions of a package each define a struct of the same module
\* and name, each has a struct entry of its own, and each entry is the one
\* struct_map gives under the address of its own package.
C15_NoDeduplication ==
  Built =>
    /\ Len(env.packages) = Len(input)
    /\ \A p \in DOMAIN input : env.packages[p].package = input[p]
    /\ \A p, q \in DOMAIN env.packages :
         (p # q /\ env.packages[p].version # env.packages[q].version) =>
           \A i \in DOMAIN env.structs, j \in DOMAIN env.structs :
             (/\ env.structs[i].package = p - 1
              /\ env.structs[j].package = q - 1
              /\ env.structs[i].name = env.structs[j].name
              /\ env.modules[env.structs[i].module + 1].name
                   = env.modules[env.structs[j].module + 1].name)
               => /\ i # j
                  /\ env.struct_map[<<env.packages[p].id,
                        env.identifiers[env.modules[env.structs[i].module + 1].name + 1],
                        env.identifiers[env.structs[i].name + 1]>>] = i - 1
                  /\ env.struct_map[<<env.packages[q].id,
                        env.identifiers[env.modules[env.structs[j].module + 1].name + 1],
                        env.identifiers[env.structs[j].name + 1]>>] = j - 1

----------------------------------------------------------------------------
(* C16 *)

RECURSIVE Flatten(_)
Flatten(lists) == IF lists = << >> THEN << >> ELSE Head(lists) \o Flatten(Tail(lists))

SelfIndices(visits) == [k \in DOMAIN visits |-> visits[k].self_idx]

Counting(n) == [k \in 1 .. n |-> k - 1]

\* C16: each walker calls the visitor once per pool entry in increasing pool
\* index; for the modules that is the order of the packages' module lists
\* taken in package order, for the structs and the functions the order of
\* the modules' struct and function lists taken in module order.
C16_WalkerOrder ==
  Built =>
    /\ SelfIndices(walk_packages(env)) = Counting(Len(env.packages))
    /\ SelfIndices(walk_modules(env)) = Counting(Len(env.modules))
    /\ SelfIndices(walk_structs(env)) = Counting(Len(env.structs))
    /\ SelfIndices(walk_functions(env)) = Counting(Len(env.functions))
    /\ SelfIndices(walk_modules(env))
         = Flatten([k \in DOMAIN walk_packages(env) |-> walk_packages(env)[k].modules])
    /\ SelfIndices(walk_structs(env))
         = Flatten([k \in DOMAIN walk_modules(env) |-> walk_modules(env)[k].structs])
    /\ SelfIndices(walk_functions(env))
         = Flatten([k \in DOMAIN walk_modules(env) |-> walk_modules(env)[k].functions])

\* A built environment of two packages, the first with two modules, with
\* structs and functions in every module.
C16_Witness ==
  /\ Built
  /\ Len(walk_packages(env)) = 2
  /\ Len(walk_packages(env)[1].modules) = 2
  /\ Len(walk_modules(env)) = 3
  /\ Len(walk_structs(env)) > 3
  /\ Len(walk_functions(env)) = 3
  /\ \A k \in DOMAIN walk_modules(env) :
       walk_modules(env)[k].structs # << >> /\ walk_modules(env)[k].functions # << >>

----------------------------------------------------------------------------
(* C17 *)

----------------------------------------------------------------------------
(* C18 *)

StageOrder ==
  {<<"load_packages", "load_modules">>, <<"load_modules", "load_structs">>,
   <<"load_structs", "load_fields">>, <<"load_fields", "load_constants">>,
   <<"load_constants", "load_functions">>, <<"load_functions", "load_code">>,
   <<"load_code", "return">>, <<"return", "done">>}

StageList == <<"load_packages", "load_modules", "load_structs", "load_fields",
               "load_constants", "load_functions", "load_code", "return">>

\* The stages that begin after `stage` has completed.
After(stage) ==
  {StageList[k] : k \in {x \in DOMAIN StageList :
                           \E y \in 1 .. x - 1 : StageList[y] = stage}}

\* What the pools hold when a stage begins: all of what the stages before it
\* produce over the whole batch, nothing of what it and the later ones do.
StageComplete ==
  /\ pc \in After("load_packages") => Len(packages) = Len(input)
  /\ pc \in After("load_modules") =>
       /\ \A p \in DOMAIN packages :
            Len(packages[p].modules) = Len(input[p].module_map)
       /\ Len(modules) = Len(Flatten([p \in DOMAIN packages |-> packages[p].modules]))
  /\ pc \in After("load_structs") =>
       /\ \A m \in DOMAIN modules :
            Len(modules[m].structs) = Len(modules[m].module.struct_defs)
       /\ Len(structs) = Len(Flatten([m \in DOMAIN modules |-> modules[m].structs]))
       /\ DOMAIN struct_map # {} \/ structs = << >>
  /\ pc = "load_fields" => \A t \in DOMAIN structs : structs[t].fields = << >>
  /\ pc \in After("load_fields") =>
       \A t \in DOMAIN structs :
         Len(structs[t].fields)
           = Len(modules[structs[t].module + 1].module
                   .struct_defs[structs[t].def_idx + 1].fields)
  /\ pc \in {"load_fields", "load_constants"} =>
       \A m \in DOMAIN modules : modules[m].constants = << >>
  /\ pc \in After("load_constants") =>
       \A m \in DOMAIN modules :
         Len(modules[m].constants) = Len(modules[m].module.constant_pool)
  /\ pc \in Stages \ After("load_functions") => functions = << >>
  /\ pc \in After("load_functions") =>
       /\ \A m \in DOMAIN modules :
            Len(modules[m].functions) = Len(modules[m].module.function_defs)
       /\ Len(functions) = Len(Flatten([m \in DOMAIN modules |-> modules[m].functions]))
  /\ pc = "load_code" => \A f \in DOMAIN functions : ~functions[f].code.present

\* C18: the stages run in the order packages, modules, structs, fields,
\* constants, functions, instructions, each over the whole batch before the
\* next begins; and a reference to any struct or function of the batch
\* resolves, wherever its target is in load order: a build of an input that
\* is sound and has every key it uses registered does not fail.
C18_StagedForwardReferences ==
  /\ [][pc' # pc => (<<pc, pc'>> \in StageOrder \/ (pc \in Stages /\ pc' = "unwound"))]_vars
  /\ [](StageComplete /\ ((Sound(input) /\ ~Dangling(input)) => pc # "unwound"))

\* A built environment where a struct of the first package has a field of a
\* struct type of the second package, at a higher struct index, and a
\* function calls a function of the second package, at a higher index.
C18_Witness ==
  /\ Built
  /\ \E t \in DOMAIN env.structs :
       \E j \in DOMAIN env.structs[t].fields :
         /\ env.structs[t].fields[j].type_.k = "Struct"
         /\ env.structs[t].fields[j].type_.idx > t - 1
         /\ env.structs[env.structs[t].fields[j].type_.idx + 1].package
              > env.structs[t].package
  /\ \E i \in Instrs(env) :
       /\ i.raw.op \in CallOps
       /\ i.resolved.idx > i.function
       /\ env.functions[i.resolved.idx + 1].package
            > env.functions[i.function + 1].package

----------------------------------------------------------------------------
(* C19 *)

\* C19: in a built environment the dependency list of a module holds the
\* index of every other module that a resolved call of one of its functions
\* goes into.
C19_DependenciesPopulated ==
  Built =>
    \A i \in Instrs(env) :
      (/\ i.raw.op \in CallOps
       /\ env.functions[i.resolved.idx + 1].module # i.module)
        => \E d \in DOMAIN env.modules[i.module + 1].dependencies :
             env.modules[i.module + 1].dependencies[d]
               = env.functions[i.resolved.idx + 1].module

----------------------------------------------------------------------------
(* C20 *)

\* A function body of the input holds an opcode load_code has no arm for.
UnknownOpcode(inp) ==
  \E m \in InputModules(inp) :
    \E d \in Range(m.entry.cm.function_defs) :
      d.has_code /\ \E bc \in Range(d.code) : bc.op \notin RecognizedOps

\* Nothing but the opcodes can make the build of the input fail.
SoundButOpcodes(inp) ==
  /\ ~Dangling(inp)
  /\ \A m \in InputModules(inp) :
       /\ m.entry.valid
       /\ m.entry.name = m.entry.cm.self_name
       /\ \A d \in Range(m.entry.cm.struct_defs) :
            d.declared /\ d.handle.module = m.entry.cm.self_name
       /\ \A d \in Range(m.entry.cm.function_defs) :
            d.handle.module = m.entry.cm.self_name
       /\ \A sig \in SigsRead(m.entry.cm) :
            SigKinds(sig) \subseteq PrimKinds \cup {"Vector", "Reference", "MutableReference",
                                                   "Struct", "StructInstantiation",
                                                   "TypeParameter"}

\* C20: a build of an input with an opcode outside the recognized set in a
\* function body never returns an environment; when nothing else is wrong
\* with the input it ends with the invalid-bytecode failure, which has no
\* other cause; and every returned environment holds every instruction of
\* every body, under its own opcode.
C20_UnknownOpcodeFails ==
  /\ UnknownOpcode(input) => ~env.built /\ outcome # "returned"
  /\ (pc \in {"unwound", "done"} /\ UnknownOpcode(input) /\ SoundButOpcodes(input))
       => pc = "unwound" /\ panic = "InvalidBytecode"
  /\ panic = "InvalidBytecode" => UnknownOpcode(input) /\ pc = "unwound"
  /\ Built =>
       \A f \in DOMAIN env.functions :
         /\ Len(env.functions[f].code.code) = Len(RawFunctionOf(env, f).code)
         /\ \A k \in DOMAIN env.functions[f].code.code :
              /\ env.functions[f].code.code[k].op = RawFunctionOf(env, f).code[k].op
              /\ env.functions[f].code.code[k].op \in RecognizedOps

\* A build of an otherwise sound input with a global-storage opcode, ended by
\* the invalid-bytecode failure in the last stage, with no environment.
C20_Witness ==
  /\ pc = "unwound"
  /\ panic = "InvalidBytecode"
  /\ SoundButOpcodes(input)
  /\ \E m \in InputModules(input) :
       \E d \in Range(m.entry.cm.function_defs) :
         \E bc \in Range(d.code) : bc.op \in {"MoveTo", "Exists"}
  /\ ~env.built

----------------------------------------------------------------------------
(* C21 *)

\* Causes of failure of an input, one by one.
Deserializes(inp) == \A m \in InputModules(inp) : m.entry.valid

NamesAgree(inp) ==
  \A m \in InputModules(inp) :
    /\ m.entry.name = m.entry.cm.self_name
    /\ \A d \in Range(m.entry.cm.struct_defs) : d.handle.module = m.entry.cm.self_name
    /\ \A d \in Range(m.entry.cm.function_defs) : d.handle.module = m.entry.cm.self_name

NativeStruct(inp) ==
  \E m \in InputModules(inp) : \E d \in Range(m.entry.cm.struct_defs) : ~d.declared

KnownSigs(inp) ==
  \A m \in InputModules(inp) :
    \A sig \in SigsRead(m.entry.cm) :
      SigKinds(sig) \subseteq PrimKinds \cup {"Vector", "Reference", "MutableReference",
                                             "Struct", "StructInstantiation",
                                             "TypeParameter"}

\* C21: a build of an input with a struct definition without declared fields
\* never returns an environment; when nothing else is wrong with the input it
\* ends with the native-field failure, which has no other cause; and in every
\* returned environment every struct has its declared fields, in declaration
\* order, under their names.
C21_NativeStructFails ==
  /\ NativeStruct(input) => ~env.built /\ outcome # "returned"
  /\ (/\ pc \in {"unwound", "done"}
      /\ NativeStruct(input)
      /\ Deserializes(input) /\ NamesAgree(input) /\ KnownSigs(input)
      /\ ~Dangling(input) /\ ~UnknownOpcode(input))
       => pc = "unwound" /\ panic = "NativeField"
  /\ panic = "NativeField" => NativeStruct(input) /\ pc = "unwound"
  /\ Built =>
       \A t \in DOMAIN env.structs :
         LET def == RawModuleOf(env, env.structs[t].module)
                      .struct_defs[env.structs[t].def_idx + 1]
         IN /\ def.declared
            /\ Len(env.structs[t].fields) = Len(def.fields)
            /\ \A j \in DOMAIN def.fields :
                 env.identifiers[env.structs[t].fields[j].name + 1] = def.fields[j].name

\* A build of an otherwise sound input with a struct without declared
\* fields, ended by the native-field failure, with no environment.
C21_Witness ==
  /\ pc = "unwound"
  /\ panic = "NativeField"
  /\ NativeStruct(input)
  /\ Deserializes(input) /\ NamesAgree(input) /\ KnownSigs(input)
  /\ ~env.built

----------------------------------------------------------------------------
(* C22 *)

\* C22: a build of an input where the module map names a module otherwise
\* than the module's identity, or where the names recovered from a struct or
\* function definition differ from the interned ones, never returns an
\* environment; when nothing else is wrong with the input it ends with the
\* name-mismatch failure, which has no other cause; and in every returned
\* environment the interned name of a module is the name of its identity and
\* of its map entry, the interned name of a struct or function is the name of
\* its definition, and the canonical key made of these names is in the map.
C22_NameIntegrity ==
  /\ ~NamesAgree(input) => ~env.built /\ outcome # "returned"
  /\ (/\ pc \in {"unwound", "done"}
      /\ ~NamesAgree(input)
      /\ Deserializes(input) /\ ~NativeStruct(input) /\ KnownSigs(input)
      /\ ~Dangling(input) /\ ~UnknownOpcode(input))
       => pc = "unwound" /\ panic = "NameMismatch"
  /\ panic = "NameMismatch" => ~NamesAgree(input) /\ pc = "unwound"
  /\ Built =>
       /\ \A m \in DOMAIN env.modules :
            /\ env.identifiers[env.modules[m].name + 1] = env.modules[m].module_id.name
            /\ env.identifiers[env.modules[m].name + 1] = env.modules[m].module.self_name
            /\ \E j \in DOMAIN input[env.modules[m].package + 1].module_map :
                 /\ input[env.modules[m].package + 1].module_map[j].cm = env.modules[m].module
                 /\ input[env.modules[m].package + 1].module_map[j].name
                      = env.identifiers[env.modules[m].name + 1]
            /\ ModuleKey(env.packages[env.modules[m].package + 1].id,
                         env.modules[m].module_id.name) \in DOMAIN env.module_map
       /\ \A t \in DOMAIN env.structs :
            LET def == RawModuleOf(env, env.structs[t].module)
                         .struct_defs[env.structs[t].def_idx + 1]
            IN /\ env.identifiers[env.structs[t].name + 1] = def.handle.name
               /\ def.handle.module = env.modules[env.structs[t].module + 1].module_id.name
               /\ StructKey(env.packages[env.structs[t].package + 1].id,
                            def.handle.module, def.handle.name) \in DOMAIN env.struct_map
       /\ \A f \in DOMAIN env.functions :
            /\ env.identifiers[env.functions[f].name + 1] = RawFunctionOf(env, f).handle.name
            /\ RawFunctionOf(env, f).handle.module
                 = env.modules[env.functions[f].module + 1].module_id.name
            /\ FunctionKey(env.packages[env.functions[f].package + 1].id,
                           RawFunctionOf(env, f).handle.module,
                           RawFunctionOf(env, f).handle.name) \in DOMAIN env.function_map

\* A build ended by the name-mismatch failure in load_structs: the module
\* handle of a struct definition names another module than the one that
\* holds it.
C22_Witness ==
  /\ pc = "unwound"
  /\ panic = "NameMismatch"
  /\ Deserializes(input)
  /\ \A m \in InputModules(input) : m.entry.name = m.entry.cm.self_name
  /\ \E m \in InputModules(input) :
       \E d \in Range(m.entry.cm.struct_defs) : d.handle.module # m.entry.cm.self_name
  /\ ~env.built

----------------------------------------------------------------------------
(* C23 *)

BranchOps == {"BrTrue", "BrFalse", "Branch"}

\* C23: every resolved BrTrue, BrFalse and Branch carries the code offset of
\* the raw instruction at its position, and the resolved list is as long as
\* the raw one, so the offset designates the same position in both.
C23_BranchesVerbatim ==
  Built =>
    \A f \in DOMAIN env.functions :
      env.functions[f].code.present =>
        /\ Len(env.functions[f].code.code) = Len(RawFunctionOf(env, f).code)
        /\ \A k \in DOMAIN env.functions[f].code.code :
             RawFunctionOf(env, f).code[k].op \in BranchOps =>
               /\ env.functions[f].code.code[k].op = RawFunctionOf(env, f).code[k].op
               /\ env.functions[f].code.code[k].n = RawFunctionOf(env, f).code[k].n

\* A built function whose first instruction is a conditional branch to the
\* second one.
C23_Witness ==
  /\ Built
  /\ \E f \in DOMAIN env.functions :
       /\ Len(env.functions[f].code.code) = 2
       /\ env.functions[f].code.code[1].op = "BrTrue"
       /\ env.functions[f].code.code[1].n = 1
       /\ env.functions[f].code.code[2].op = "Ret"

----------------------------------------------------------------------------
(* C24 *)

RECURSIVE SameShape(_, _)
\* The type has the constructor of the signature token, with the arguments
\* of the token's arguments in order.
SameShape(sig, type) ==
  /\ type.k = sig.k
  /\ Len(type.args) = Len(sig.args)
  /\ sig.k = "TypeParameter" => type.n = sig.n
  /\ \A a \in DOMAIN sig.args : SameShape(sig.args[a], type.args[a])

\* The key a call is looked up under.
CallKey(e, i) ==
  <<IF i.raw.h.addr = RawModuleOf(e, i.module).self_addr
    THEN e.packages[e.modules[i.module + 1].package + 1].id
    ELSE C6_Linked(e, [module |-> i.module, h |-> i.raw.h]),
    i.raw.h.module, i.raw.h.name>>

\* C24: a resolved CallGeneric carries the index function_map has for the
\* callee and one type per raw type argument, in the order of the
\* instantiation, each with the shape of its signature token and with every
\* struct in it resolved as the struct of any other type is.
C24_GenericCallTypeArguments ==
  Built =>
    \A i \in Instrs(env) :
      i.raw.op = "CallGeneric" =>
        /\ i.resolved.op = "CallGeneric"
        /\ CallKey(env, i) \in DOMAIN env.function_map
        /\ i.resolved.idx = env.function_map[CallKey(env, i)]
        /\ env.identifiers[env.functions[i.resolved.idx + 1].name + 1] = i.raw.h.name
        /\ Len(i.resolved.types) = Len(i.raw.sigs)
        /\ \A a \in DOMAIN i.raw.sigs : SameShape(i.raw.sigs[a], i.resolved.types[a])
        /\ \A r \in FromModule(i.module, SeqRefs(i.raw.sigs, i.resolved.types)) :
             /\ <<C1_Linked(env, r), r.h.module, r.h.name>> \in DOMAIN env.struct_map
             /\ r.idx = env.struct_map[<<C1_Linked(env, r), r.h.module, r.h.name>>]
        /\ i.raw.sigs = <<SigVector(U64)>> =>
             i.resolved.types = <<Type("Vector", 0, <<Type("U64", 0, << >>, 0)>>, 0)>>

\* A built generic call with the type arguments vector<u64>, a struct of
\* another package and a type parameter, in this order.
C24_Witness ==
  /\ Built
  /\ \E i \in Instrs(env) :
       /\ i.resolved.op = "CallGeneric"
       /\ Len(i.resolved.types) = 3
       /\ i.resolved.types[1] = Type("Vector", 0, <<Type("U64", 0, << >>, 0)>>, 0)
       /\ i.resolved.types[2].k = "Struct"
       /\ i.resolved.types[3].k = "TypeParameter"
       /\ env.functions[i.resolved.idx + 1].package # env.modules[i.module + 1].package

----------------------------------------------------------------------------
(* C25 *)

\* The handle of the struct definition that a field reference names as owner.
OwnerHandle(e, i) == RawModuleOf(e, i.module).struct_defs[i.raw.def + 1].handle

\* The key the owner of a field reference is looked up under.
OwnerKey(e, i) ==
  <<C3_Start(e, [module |-> i.module, h |-> OwnerHandle(e, i)]),
    OwnerHandle(e, i).module, OwnerHandle(e, i).name>>

----------------------------------------------------------------------------
(* C26 *)

SelfIndexed(pool) == \A i \in DOMAIN pool : pool[i].self_idx = i - 1

\* C26: in every returned environment the self_idx of every package, module,
\* struct and function is its pool position, and the owning-module index of
\* every function names the module that declares it; the pools have these
\* self indices from the end of the stage that numbers them.
C26_SelfIndex ==
  /\ pc \in After("load_packages") => SelfIndexed(packages)
  /\ pc \in After("load_modules") => SelfIndexed(modules)
  /\ pc \in After("load_structs") => SelfIndexed(structs)
  /\ pc \in After("load_functions") => SelfIndexed(functions)
  /\ Built =>
       /\ SelfIndexed(env.packages) /\ SelfIndexed(env.modules)
       /\ SelfIndexed(env.structs) /\ SelfIndexed(env.functions)
       /\ \A f \in DOMAIN env.functions :
            /\ env.functions[f].module + 1 \in DOMAIN env.modules
            /\ env.modules[env.functions[f].module + 1].self_idx = env.functions[f].module
            /\ \E k \in DOMAIN env.modules[env.functions[f].module + 1].functions :
                 env.modules[env.functions[f].module + 1].functions[k] = f - 1
            /\ env.functions[f].def_idx + 1
                 \in DOMAIN env.modules[env.functions[f].module + 1].module.function_defs
            /\ env.identifiers[env.functions[f].name + 1] = RawFunctionOf(env, f).handle.name
            /\ env.functions[f].package = env.modules[env.functions[f].module + 1].package

\* A built environment with an entity of every pool at a position other than
\* 0, and a function declared by a module other than module 0.
C26_Witness ==
  /\ Built
  /\ Len(env.packages) > 1 /\ Len(env.modules) > 2
  /\ Len(env.structs) > 1 /\ Len(env.functions) > 2
  /\ \E f \in DOMAIN env.functions :
       env.functions[f].module = 2 /\ env.functions[f].self_idx = f - 1

----------------------------------------------------------------------------
(* C27 *)

\* The number of positions of the lists at which an index stands.
Occurrences(lists, idx) ==
  Cardinality(UNION {{<<l, k>> : k \in {x \in DOMAIN lists[l] : lists[l][x] = idx}} :
                     l \in DOMAIN lists})

Increasing(list) == \A a, b \in DOMAIN list : a < b => list[a] < list[b]

\* The lists of the owners partition the pool: every pool index stands once,
\* in the list of the owner its entity names, and every list is increasing.
\* owners[i] is the owner that pool entry i names.
Partition(lists, owners) ==
  /\ \A i \in DOMAIN owners :
       /\ Occurrences(lists, i - 1) = 1
       /\ owners[i] + 1 \in DOMAIN lists
       /\ \E k \in DOMAIN lists[owners[i] + 1] : lists[owners[i] + 1][k] = i - 1
  /\ \A l \in DOMAIN lists :
       /\ Increasing(lists[l])
       /\ \A k \in DOMAIN lists[l] : lists[l][k] + 1 \in DOMAIN owners

\* C27: in every returned environment the module lists of the packages
\* partition the module pool and the struct and function lists of the
\* modules partition the struct and function pools, each entity in the list
\* of the owner it names, each list increasing; modules_in_package gives the
\* modules that name the package; and the owning package of a struct or
\* function is the owning package of its owning module.
C27_OwnershipPartition ==
  Built =>
    /\ Partition([p \in DOMAIN env.packages |-> env.packages[p].modules],
                 [m \in DOMAIN env.modules |-> env.modules[m].package])
    /\ Partition([m \in DOMAIN env.modules |-> env.modules[m].structs],
                 [t \in DOMAIN env.structs |-> env.structs[t].module])
    /\ Partition([m \in DOMAIN env.modules |-> env.modules[m].functions],
                 [f \in DOMAIN env.functions |-> env.functions[f].module])
    /\ \A p \in DOMAIN env.packages :
         /\ \A k \in DOMAIN modules_in_package(env, env.packages[p]) :
              modules_in_package(env, env.packages[p])[k].package = p - 1
         /\ Len(modules_in_package(env, env.packages[p]))
              = Cardinality({m \in DOMAIN env.modules : env.modules[m].package = p - 1})
    /\ \A t \in DOMAIN env.structs :
         env.structs[t].package = env.modules[env.structs[t].module + 1].package
    /\ \A f \in DOMAIN env.functions :
         env.functions[f].package = env.modules[env.functions[f].module + 1].package

\* A built environment of two packages where a package owns two modules and
\* every module owns two structs.
C27_Witness ==
  /\ Built
  /\ Len(env.packages) = 2
  /\ \E p \in DOMAIN env.packages : Len(modules_in_package(env, env.packages[p])) = 2
  /\ \A m \in DOMAIN env.modules : Len(env.modules[m].structs) = 2
  /\ Len(env.modules) = 3

----------------------------------------------------------------------------
(* C28 *)

\* The canonical keys of the entities of an environment.
KeyOfModule(e, m) ==
  ModuleKey(e.packages[e.modules[m].package + 1].id, e.identifiers[e.modules[m].name + 1])

KeyOfStruct(e, t) ==
  StructKey(e.packages[e.structs[t].package + 1].id,
            e.identifiers[e.modules[e.structs[t].module + 1].name + 1],
            e.identifiers[e.structs[t].name + 1])

KeyOfFunction(e, f) ==
  FunctionKey(e.packages[e.functions[f].package + 1].id,
              e.identifiers[e.modules[e.functions[f].module + 1].name + 1],
              e.identifiers[e.functions[f].name + 1])

\* C28: in every returned environment the map entry under the id of a
\* package, and under the canonical key of a module, a struct and a function,
\* is the entity's own index, and each map has as many entries as its pool.
C28_MapsCoverPools ==
  Built =>
    /\ \A p \in DOMAIN env.packages :
         /\ env.packages[p].id \in DOMAIN env.package_map
         /\ env.package_map[env.packages[p].id] = env.packages[p].self_idx
    /\ \A m \in DOMAIN env.modules :
         /\ KeyOfModule(env, m) \in DOMAIN env.module_map
         /\ env.module_map[KeyOfModule(env, m)] = env.modules[m].self_idx
    /\ \A t \in DOMAIN env.structs :
         /\ KeyOfStruct(env, t) \in DOMAIN env.struct_map
         /\ env.struct_map[KeyOfStruct(env, t)] = env.structs[t].self_idx
    /\ \A f \in DOMAIN env.functions :
         /\ KeyOfFunction(env, f) \in DOMAIN env.function_map
         /\ env.function_map[KeyOfFunction(env, f)] = env.functions[f].self_idx
    /\ Cardinality(DOMAIN env.package_map) = Len(env.packages)
    /\ Cardinality(DOMAIN env.module_map) = Len(env.modules)
    /\ Cardinality(DOMAIN env.struct_map) = Len(env.structs)
    /\ Cardinality(DOMAIN env.function_map) = Len(env.functions)

----------------------------------------------------------------------------
(* C29 *)

\* C29: in every returned environment, for a struct defined in a module, the
\* index a Pack, Unpack or field borrow of the module on the struct carries
\* is the index a type of the module that refers to the struct by the same
\* handle resolves to.
C29_InstructionTypeAgree ==
  Built =>
    \A d \in DefRefs(env) :
      \A r \in TypeRefs(env) :
        (r.module = d.module /\ r.h = d.h) => r.idx = d.idx

----------------------------------------------------------------------------
(* C30 *)

\* C30: a package get_package_object serves from the package cache has the
\* digest of the object stored under its id when it is served; and the read
\* of the store after a miss returns MoveObjectAsPackage for an object that
\* is no package and None for an absent one, in both cases with the cache
\* left as it was.
C30_PackageCacheConsistent ==
  /\ [](served.kind = "Cached" =>
          served.stored.present /\ served.stored.digest = served.p.digest)
  /\ [][\A t \in Threads :
          (thread[t].pc = "get_object" /\ thread'[t].pc # "get_object"
           /\ ~(store[thread[t].id].present /\ store[thread[t].id].is_package))
            => /\ package_cache' = package_cache
               /\ served'.kind = (IF store[thread[t].id].present
                                  THEN "MoveObjectAsPackage" ELSE "None")]_vars

====
